---- MODULE Spec2Model ----
(***************************************************************************)
(* Saathi legal assistant: the chat endpoint of app_gemini.py (and its     *)
(* copy in app_production.py) with the per-client sliding-window rate      *)
(* limiter is_rate_limited / get_rate_limit_reset_time.                    *)
(*                                                                         *)
(* Time is counted in ticks, TicksPerSecond ticks to the second, so that   *)
(* datetime.now() can fall between whole seconds and int(total_seconds())  *)
(* really rounds.  Every request is handled by a worker thread; a handler  *)
(* is a sequence of steps, one per access to the shared state, so that     *)
(* the threaded server's interleavings are behaviours of the model.  The   *)
(* handlers in flight are kept as a bag of their positions and locals:     *)
(* which worker runs a handler makes no difference to what it does.        *)
(***************************************************************************)
EXTENDS Integers, Sequences, FiniteSets, Bags, TLC

\* ---------------------------------------------------------------- constants

RATE_LIMIT_REQUESTS == 3

RATE_LIMIT_WINDOW == 60

HISTORY_LIMIT == 20

\* ------------------------------------------------------------------- bounds

\* Clock resolution of the model.
TicksPerSecond == 2

\* Requests served in one behaviour of Spec (serialized) and of SpecTwo.
MaxRequests == 5

MaxRequestsTwo == 4

\* Requests served in one behaviour of SpecPair.
MaxRequestsPair == 5

\* Requests served in one behaviour of SpecOverlap.
MaxRequestsOverlap == 4

\* Requests served in one behaviour of SpecRace.
MaxRequestsRace == 5

\* How many whole seconds past the window length the clock runs.
LateSeconds == 3

\* Requests served in one behaviour of SpecIdent, and the longest value of
\* the X-Forwarded-For header in them.
MaxRequestsIdent == 2

MaxHeaderLen == 2

\* ---------------------------------------------------------------- the clock

\* timedelta(seconds=RATE_LIMIT_WINDOW), in ticks.
WindowTicks == RATE_LIMIT_WINDOW * TicksPerSecond

Sec(s) == s * TicksPerSecond

\* The instants at which the clock is read in Spec: the seconds of the
\* documented scenarios, the seconds around the end of the first window, and
\* one instant between two seconds after each of 0 and RATE_LIMIT_WINDOW.
ClockSeconds ==
    {0, 1, 2, 3, 10, 20, 30}
        \cup ((RATE_LIMIT_WINDOW - 1) .. (RATE_LIMIT_WINDOW + LateSeconds))

ClockPoints ==
    {Sec(s) : s \in ClockSeconds} \cup {1, Sec(RATE_LIMIT_WINDOW) + 1}

\* The instants of SpecPair, and those of SpecTwo and SpecConc.
ClockPointsPair ==
    {Sec(s) : s \in {0, 1, RATE_LIMIT_WINDOW, RATE_LIMIT_WINDOW + 1}}
        \cup {Sec(RATE_LIMIT_WINDOW) + 1}

ClockPointsFew == {Sec(s) : s \in {0, 1, RATE_LIMIT_WINDOW + 1}}

\* The instants of SpecRace: a first one, one between two seconds, the one
\* exactly a window after the first and the next instant after that.
ClockPointsRace ==
    {Sec(0), 1, Sec(RATE_LIMIT_WINDOW), Sec(RATE_LIMIT_WINDOW) + 1}

\* The instants of SpecOverlap: a first one and one more than a window later.
ClockPointsOverlap == {Sec(0), Sec(RATE_LIMIT_WINDOW + 1)}

\* ------------------------------------------------------------------- state

Clients == {"A", "B"}

\* "invalid": a body that makes the handler raise inside its try block.
Bodies == {"ok", "nojson", "empty", "long", "invalid"}

VARIABLES
    now,                   \* the wall clock, in ticks
    api_configured,        \* is_api_configured(): fixed at process start
    rate_limit_store,      \* defaultdict(deque): client id -> timestamps
    conversation_history,  \* the process-wide list of messages
    req,                   \* the handlers in flight: positions and locals
    budget,                \* requests still to arrive
    trace,                 \* per client: the responses given, in order
    request_counts         \* app_production's fallback: key -> hourly counter

vars ==
    <<now, api_configured, rate_limit_store, conversation_history, req,
      budget, trace, request_counts>>

\* Before the clock's first instant: a local not yet assigned.
NoTime == 0 - 1

\* rate_limit_store[client_id] of a defaultdict(deque): a missing key is
\* created with an empty deque by the lookup itself.
Lookup(store, c) ==
    IF c \in DOMAIN store THEN store ELSE store @@ (c :> <<>>)

InitWith(n, configured) ==
    /\ now = 0
    /\ api_configured \in configured
    /\ rate_limit_store = <<>>
    /\ conversation_history = <<>>
    /\ req = EmptyBag
    /\ budget = n
    /\ trace = [c \in Clients |-> <<>>]
    /\ request_counts = <<>>

\* ------------------------------------------------- the client's identity

\* A header value or an address is a string, kept as the sequence of its
\* characters, or Python's None, which is no sequence of characters.
None == <<"None">>

\* The characters of X-Forwarded-For values: a letter, a blank and a comma.
Chars == {"A", " ", ","}

ForwardedForValues ==
    {None} \cup UNION {[1 .. k -> Chars] : k \in 0 .. MaxHeaderLen}

RealIpValues == {None, <<>>, <<"B">>, <<" ", "B">>}

RemoteAddrValues == {None, <<>>, <<"C">>}

\* What get_client_identifier reads of a request.
Requests ==
    [forwarded_for : ForwardedForValues, real_ip : RealIpValues,
     remote_addr : RemoteAddrValues]

\* if value: neither None nor the empty string
Truthy(v) == v # None /\ v # <<>>

\* s.split(',')[0]
RECURSIVE SplitFirst(_)
SplitFirst(s) ==
    IF s = <<>> \/ Head(s) = ","
        THEN <<>> ELSE <<Head(s)>> \o SplitFirst(Tail(s))

RECURSIVE LStrip(_)
LStrip(s) == IF s # <<>> /\ Head(s) = " " THEN LStrip(Tail(s)) ELSE s

RECURSIVE RStrip(_)
RStrip(s) ==
    IF s # <<>> /\ s[Len(s)] = " "
        THEN RStrip(SubSeq(s, 1, Len(s) - 1)) ELSE s

\* s.strip()
Strip(s) == RStrip(LStrip(s))

\* 'unknown'
Unknown == <<"u", "n", "k", "n", "o", "w", "n">>

\* An identifier taken from X-Forwarded-For as it stands.
GetClientIdentifierUntrimmed(request) ==
    IF Truthy(request.forwarded_for)
        THEN SplitFirst(request.forwarded_for)
    ELSE IF Truthy(request.real_ip)
        THEN request.real_ip
    ELSE IF Truthy(request.remote_addr)
        THEN request.remote_addr
    ELSE Unknown

\* get_client_identifier(request)
GetClientIdentifier(request) ==
    IF Truthy(request.forwarded_for)
        THEN Strip(SplitFirst(request.forwarded_for))
    ELSE IF Truthy(request.real_ip)
        THEN request.real_ip
    ELSE IF Truthy(request.remote_addr)
        THEN request.remote_addr
    ELSE Unknown

\* Every identifier that the requests can get.
Identifiers == {GetClientIdentifier(r) : r \in Requests}

\* ----------------------------------------------------- the limiter's tests

\* A purge that also drops the timestamp exactly one window old.
IsOldLe(ts, cutoff) == ts <= cutoff

\* client_requests[0] < cutoff_time
IsOld(ts, cutoff) == ts < cutoff

\* A limit reached one request late.
AtLimitGt(n) == n > RATE_LIMIT_REQUESTS

\* len(client_requests) >= RATE_LIMIT_REQUESTS
AtLimit(n) == n >= RATE_LIMIT_REQUESTS

\* A fixed window: the cutoff is the start of the calendar-aligned bucket.
CutoffTimeBucket(t) == t - (t % WindowTicks)

\* cutoff_time = now - timedelta(seconds=RATE_LIMIT_WINDOW)
CutoffTime(t) == t - WindowTicks

\* A reset time rounded up to the next whole second.
ResetInRoundedUp(oldest, t) ==
    IF oldest + WindowTicks > t
        THEN (oldest + WindowTicks - t + TicksPerSecond - 1)
                 \div TicksPerSecond
        ELSE 0

\* int((reset_time - now).total_seconds()) if reset_time > now, else 0
ResetIn(oldest, t) ==
    IF oldest + WindowTicks > t
        THEN (oldest + WindowTicks - t) \div TicksPerSecond
        ELSE 0

\* The quota left, had the count not included the request itself.
RemainingExcluding(count) ==
    IF RATE_LIMIT_REQUESTS - count + 1 > 0
        THEN RATE_LIMIT_REQUESTS - count + 1 ELSE 0

\* max(0, RATE_LIMIT_REQUESTS - request_count)
Remaining(count) ==
    IF RATE_LIMIT_REQUESTS - count > 0 THEN RATE_LIMIT_REQUESTS - count ELSE 0

\* get_rate_limit_reset_time of a client whose deque holds d, at time t
GetRateLimitResetTime(d, t) == IF d = <<>> THEN 0 ELSE ResetIn(Head(d), t)

\* A handler that goes on to the body whatever the limiter said.
AfterCheckIgnored(is_limited) == "chat_body"

\* if is_limited: ... return 429; otherwise the handler goes on to the body
AfterCheck(is_limited) == IF is_limited THEN "grt_lookup" ELSE "chat_body"

\* -------------------------------------------------------------- responses

\* The timestamps stored for client c (none when c has no entry).
Stored(c) ==
    IF c \in DOMAIN rate_limit_store THEN rate_limit_store[c] ELSE <<>>

\* No hourly counter: the key is not in request_counts, or the handler has
\* not looked it up.
NoCounter == [count |-> 0 - 1, reset_time |-> NoTime]

\* The hourly counter of key c (NoCounter when c has no entry).
Counter(c) ==
    IF c \in DOMAIN request_counts THEN request_counts[c] ELSE NoCounter

\* The locals of a handler.  pre, hist, stored, hourly_pre, counted and
\* messages are not the program's: they keep the client's timestamps as
\* is_rate_limited found them, the history as the request found it, the
\* client's timestamps as a request to app_production found them, the hourly
\* counter as the request's lookup found it, whether the request was counted
\* in it and the list that call_gemini_api was given, for the response log.
\* cut is the list that the slice builds.
NewRequest(c, body) ==
    [pc |-> "chat", client_id |-> c, body |-> body, now |-> NoTime,
     cutoff_time |-> NoTime, pre |-> <<>>, checked |-> FALSE,
     is_limited |-> FALSE, request_count |-> 0, oldest_request |-> NoTime,
     reset_at |-> NoTime, reset_time |-> 0, called |-> FALSE,
     hist |-> conversation_history, reply |-> "", stored |-> <<>>,
     current_time |-> NoTime, hourly_pre |-> NoCounter, counted |-> FALSE,
     cut |-> <<>>, messages |-> <<>>]

InFlight == BagToSet(req)

\* Handler q moves on as q2.
Goto(q, q2) == req' = (req (-) SetToBag({q})) (+) SetToBag({q2})

\* Handler q returns, leaving the history as h: its response is logged for
\* its client and its worker is free again.
Respond(q, status, error, rl, h) ==
    LET e == [t |-> q.now, pre |-> q.pre, post |-> Stored(q.client_id),
              checked |-> q.checked, is_limited |-> q.is_limited,
              request_count |-> q.request_count, reset_at |-> q.reset_at,
              called |-> q.called, hist_pre |-> q.hist, hist_post |-> h,
              status |-> status, error |-> error, rate_limit |-> rl,
              stored |-> q.stored, current_time |-> q.current_time,
              hourly_pre |-> q.hourly_pre, counted |-> q.counted,
              hourly_post |-> Counter(q.client_id), at |-> q.pc,
              messages |-> q.messages]
    IN  /\ trace' = [trace EXCEPT ![q.client_id] = Append(@, e)]
        /\ req' = req (-) SetToBag({q})

NoRateLimit == [limit |-> 0, remaining |-> 0, reset_in |-> 0]

\* ------------------------------------------------------------ the handler

\* A POST /chat of client c arrives and a worker takes it; at most cap
\* requests are in flight.
Start(c, body, cap) ==
    /\ budget > 0
    /\ BagCardinality(req) < cap
    /\ req' = req (+) SetToBag({NewRequest(c, body)})
    /\ budget' = budget - 1
    /\ UNCHANGED <<now, api_configured, rate_limit_store,
                   conversation_history, trace>>
    /\ UNCHANGED request_counts

\* A POST /chat with the headers and peer address of request arrives.  Its
\* identifier depends on the request alone, so it is kept with the request
\* from the start; the handler uses it from get_client_identifier(request) on.
StartIdent(request, cap) ==
    /\ budget > 0
    /\ BagCardinality(req) < cap
    /\ req' = req (+) SetToBag({
                  NewRequest(GetClientIdentifier(request), "nojson")
                      @@ [request |-> request]})
    /\ budget' = budget - 1
    /\ UNCHANGED <<now, api_configured, rate_limit_store,
                   conversation_history, trace>>
    /\ UNCHANGED request_counts

\* An entry that records the request in the client's window before it looks
\* at the configuration.
ChatEntryCounted(q) ==
    /\ q.pc = "chat"
    /\ IF api_configured
          THEN /\ Goto(q, [q EXCEPT !.pc = "irl_now"])
               /\ UNCHANGED <<trace, rate_limit_store>>
          ELSE /\ Respond(q, 500, "API_NOT_CONFIGURED", NoRateLimit,
                          conversation_history)
               /\ rate_limit_store' =
                      [Lookup(rate_limit_store, q.client_id)
                          EXCEPT ![q.client_id] = Append(@, now)]
    /\ UNCHANGED <<now, api_configured, conversation_history, budget>>
    /\ UNCHANGED request_counts

\* if not is_api_configured(): return 500; client_id = get_client_identifier()
ChatEntry(q) ==
    /\ q.pc = "chat"
    /\ IF api_configured
          THEN /\ Goto(q, [q EXCEPT !.pc = "irl_now"])
               /\ UNCHANGED trace
          ELSE Respond(q, 500, "API_NOT_CONFIGURED", NoRateLimit,
                       conversation_history)
    /\ UNCHANGED <<now, api_configured, rate_limit_store,
                   conversation_history, budget>>
    /\ UNCHANGED request_counts

\* now = datetime.now(); client_requests = rate_limit_store[client_id];
\* cutoff_time = now - timedelta(...)
IrlNow(q) ==
    /\ q.pc = "irl_now"
    /\ rate_limit_store' = Lookup(rate_limit_store, q.client_id)
    /\ Goto(q, [q EXCEPT !.pc = "irl_test", !.now = now,
                         !.cutoff_time = CutoffTime(now),
                         !.pre = rate_limit_store'[q.client_id]])
    /\ UNCHANGED <<now, api_configured, conversation_history, budget, trace>>
    /\ UNCHANGED request_counts

\* while client_requests and client_requests[0] < cutoff_time:
IrlTest(q) ==
    /\ q.pc = "irl_test"
    /\ LET d == rate_limit_store[q.client_id]
       IN  Goto(q, [q EXCEPT !.pc =
                      IF d # <<>> /\ IsOld(Head(d), q.cutoff_time)
                         THEN "irl_pop" ELSE "irl_check"])
    /\ UNCHANGED <<now, api_configured, rate_limit_store,
                   conversation_history, budget, trace>>
    /\ UNCHANGED request_counts

\* A purge that drops one old timestamp only: an if in place of the while.
IrlPopOnce(q) ==
    /\ q.pc = "irl_pop"
    /\ LET c == q.client_id
           d == rate_limit_store[c]
       IN  IF d = <<>>
              THEN /\ Respond(q, 500, "INTERNAL_SERVER_ERROR", NoRateLimit,
                              conversation_history)
                   /\ UNCHANGED rate_limit_store
              ELSE /\ rate_limit_store' =
                          [rate_limit_store EXCEPT ![c] = Tail(d)]
                   /\ Goto(q, [q EXCEPT !.pc = "irl_check"])
                   /\ UNCHANGED trace
    /\ UNCHANGED <<now, api_configured, conversation_history, budget>>
    /\ UNCHANGED request_counts

\* A purge that deletes the client's entry with its last timestamp.
IrlPopEvicting(q) ==
    /\ q.pc = "irl_pop"
    /\ LET c == q.client_id
           d == rate_limit_store[c]
       IN  IF d = <<>>
              THEN /\ Respond(q, 500, "INTERNAL_SERVER_ERROR", NoRateLimit,
                              conversation_history)
                   /\ UNCHANGED rate_limit_store
              ELSE /\ rate_limit_store' =
                          IF Len(d) = 1
                             THEN [b \in DOMAIN rate_limit_store \ {c} |->
                                      rate_limit_store[b]]
                             ELSE [rate_limit_store EXCEPT ![c] = Tail(d)]
                   /\ Goto(q, [q EXCEPT !.pc = "irl_now"])
                   /\ UNCHANGED trace
    /\ UNCHANGED <<now, api_configured, conversation_history, budget>>
    /\ UNCHANGED request_counts

\* client_requests.popleft(); on an empty deque it raises IndexError, which
\* nothing in chat() catches: the server answers 500.
IrlPop(q) ==
    /\ q.pc = "irl_pop"
    /\ LET c == q.client_id
           d == rate_limit_store[c]
       IN  IF d = <<>>
              THEN /\ Respond(q, 500, "INTERNAL_SERVER_ERROR", NoRateLimit,
                              conversation_history)
                   /\ UNCHANGED rate_limit_store
              ELSE /\ rate_limit_store' =
                          [rate_limit_store EXCEPT ![c] = Tail(d)]
                   /\ Goto(q, [q EXCEPT !.pc = "irl_test"])
                   /\ UNCHANGED trace
    /\ UNCHANGED <<now, api_configured, conversation_history, budget>>
    /\ UNCHANGED request_counts

\* A check that lets a request in while the sequence holds N timestamps.
IrlCheckLate(q) ==
    /\ q.pc = "irl_check"
    /\ Goto(q, [q EXCEPT !.pc =
                  IF Len(rate_limit_store[q.client_id]) > RATE_LIMIT_REQUESTS
                     THEN "irl_limited" ELSE "irl_append"])
    /\ UNCHANGED <<now, api_configured, rate_limit_store,
                   conversation_history, budget, trace>>
    /\ UNCHANGED request_counts

\* if len(client_requests) >= RATE_LIMIT_REQUESTS:
IrlCheck(q) ==
    /\ q.pc = "irl_check"
    /\ Goto(q, [q EXCEPT !.pc =
                  IF AtLimit(Len(rate_limit_store[q.client_id]))
                     THEN "irl_limited" ELSE "irl_append"])
    /\ UNCHANGED <<now, api_configured, rate_limit_store,
                   conversation_history, budget, trace>>
    /\ UNCHANGED request_counts

\* A rejection that records the rejected request's timestamp.
IrlLimitedRecords(q) ==
    /\ q.pc = "irl_limited"
    /\ rate_limit_store' =
           [rate_limit_store EXCEPT ![q.client_id] = Append(@, q.now)]
    /\ Goto(q, [q EXCEPT !.pc = AfterCheck(TRUE),
                         !.checked = TRUE,
                         !.is_limited = TRUE,
                         !.request_count = Len(rate_limit_store[q.client_id])])
    /\ UNCHANGED <<now, api_configured, conversation_history, budget, trace>>
    /\ UNCHANGED request_counts

\* return True, len(client_requests)
IrlLimited(q) ==
    /\ q.pc = "irl_limited"
    /\ Goto(q, [q EXCEPT !.pc = AfterCheck(TRUE),
                         !.checked = TRUE,
                         !.is_limited = TRUE,
                         !.request_count = Len(rate_limit_store[q.client_id])])
    /\ UNCHANGED <<now, api_configured, rate_limit_store,
                   conversation_history, budget, trace>>
    /\ UNCHANGED request_counts

\* One deque shared by all clients: the timestamp goes to every client's.
IrlAppendAll(q) ==
    /\ q.pc = "irl_append"
    /\ rate_limit_store' =
           [c \in DOMAIN rate_limit_store |->
               Append(rate_limit_store[c], q.now)]
    /\ Goto(q, [q EXCEPT !.pc = "irl_admitted"])
    /\ UNCHANGED <<now, api_configured, conversation_history, budget, trace>>
    /\ UNCHANGED request_counts

\* client_requests.append(now)
IrlAppend(q) ==
    /\ q.pc = "irl_append"
    /\ rate_limit_store' =
           [rate_limit_store EXCEPT ![q.client_id] = Append(@, q.now)]
    /\ Goto(q, [q EXCEPT !.pc = "irl_admitted"])
    /\ UNCHANGED <<now, api_configured, conversation_history, budget, trace>>
    /\ UNCHANGED request_counts

\* An admission that reports the count without the request itself.
IrlAdmittedBefore(q) ==
    /\ q.pc = "irl_admitted"
    /\ Goto(q, [q EXCEPT !.pc = AfterCheck(FALSE),
                         !.checked = TRUE,
                         !.is_limited = FALSE,
                         !.request_count =
                             Len(rate_limit_store[q.client_id]) - 1])
    /\ UNCHANGED <<now, api_configured, rate_limit_store,
                   conversation_history, budget, trace>>
    /\ UNCHANGED request_counts

\* return False, len(client_requests)
IrlAdmitted(q) ==
    /\ q.pc = "irl_admitted"
    /\ Goto(q, [q EXCEPT !.pc = AfterCheck(FALSE),
                         !.checked = TRUE,
                         !.is_limited = FALSE,
                         !.request_count = Len(rate_limit_store[q.client_id])])
    /\ UNCHANGED <<now, api_configured, rate_limit_store,
                   conversation_history, budget, trace>>
    /\ UNCHANGED request_counts

\* get_rate_limit_reset_time: client_requests = rate_limit_store[client_id]
\* if not client_requests: return 0
GrtLookup(q) ==
    /\ q.pc = "grt_lookup"
    /\ rate_limit_store' = Lookup(rate_limit_store, q.client_id)
    /\ Goto(q, [q EXCEPT !.pc =
                  IF rate_limit_store'[q.client_id] = <<>>
                     THEN "chat_reject" ELSE "grt_oldest",
                         !.reset_time = 0])
    /\ UNCHANGED <<now, api_configured, conversation_history, budget, trace>>
    /\ UNCHANGED request_counts

\* A reset time counted from the newest request instead of the oldest.
GrtOldestNewest(q) ==
    /\ q.pc = "grt_oldest"
    /\ LET d == rate_limit_store[q.client_id]
       IN  IF d = <<>>
              THEN Respond(q, 500, "INTERNAL_SERVER_ERROR", NoRateLimit,
                           conversation_history)
              ELSE /\ Goto(q, [q EXCEPT !.pc = "grt_now",
                                        !.oldest_request = d[Len(d)]])
                   /\ UNCHANGED trace
    /\ UNCHANGED <<now, api_configured, rate_limit_store,
                   conversation_history, budget>>
    /\ UNCHANGED request_counts

\* oldest_request = client_requests[0]; IndexError on an empty deque
GrtOldest(q) ==
    /\ q.pc = "grt_oldest"
    /\ LET d == rate_limit_store[q.client_id]
       IN  IF d = <<>>
              THEN Respond(q, 500, "INTERNAL_SERVER_ERROR", NoRateLimit,
                           conversation_history)
              ELSE /\ Goto(q, [q EXCEPT !.pc = "grt_now",
                                        !.oldest_request = Head(d)])
                   /\ UNCHANGED trace
    /\ UNCHANGED <<now, api_configured, rate_limit_store,
                   conversation_history, budget>>
    /\ UNCHANGED request_counts

\* reset_time = oldest_request + timedelta(...); now = datetime.now()
\* return int((reset_time - now).total_seconds()) or 0
GrtNow(q) ==
    /\ q.pc = "grt_now"
    /\ Goto(q, [q EXCEPT !.pc = "chat_reject",
                         !.reset_at = now,
                         !.reset_time = ResetIn(q.oldest_request, now)])
    /\ UNCHANGED <<now, api_configured, rate_limit_store,
                   conversation_history, budget, trace>>
    /\ UNCHANGED request_counts

\* return jsonify({... "error": "RATE_LIMIT_EXCEEDED", "rate_limit": ...}), 429
ChatReject(q) ==
    /\ q.pc = "chat_reject"
    /\ Respond(q, 429, "RATE_LIMIT_EXCEEDED",
               [limit |-> RATE_LIMIT_REQUESTS, remaining |-> 0,
                reset_in |-> q.reset_time,
                current_requests |-> q.request_count],
               conversation_history)
    /\ UNCHANGED <<now, api_configured, rate_limit_store,
                   conversation_history, budget>>
    /\ UNCHANGED request_counts

\* A validation of the body that gives the slot back when it refuses the
\* request.
ChatBodyRefund(q) ==
    /\ q.pc = "chat_body"
    /\ IF q.body = "ok"
          THEN /\ Goto(q, [q EXCEPT !.pc = "hist_append"])
               /\ UNCHANGED <<trace, rate_limit_store>>
          ELSE /\ Respond(q, IF q.body = "invalid" THEN 500 ELSE 400,
                          IF q.body = "invalid" THEN "UNEXPECTED_ERROR"
                                                ELSE "BAD_REQUEST",
                          NoRateLimit, conversation_history)
               /\ rate_limit_store' =
                      [rate_limit_store EXCEPT ![q.client_id] =
                          SubSeq(@, 1, Len(@) - 1)]
    /\ UNCHANGED <<now, api_configured, conversation_history, budget>>
    /\ UNCHANGED request_counts

\* data = request.get_json() ... the three 400 answers; a body that
\* get_json() refuses, or one that is no JSON object, raises inside the try
\* and is answered by the except clause: 500 UNEXPECTED_ERROR
ChatBody(q) ==
    /\ q.pc = "chat_body"
    /\ IF q.body = "ok"
          THEN /\ Goto(q, [q EXCEPT !.pc = "hist_append"])
               /\ UNCHANGED trace
          ELSE IF q.body = "invalid"
          THEN Respond(q, 500, "UNEXPECTED_ERROR", NoRateLimit,
                       conversation_history)
          ELSE Respond(q, 400, "BAD_REQUEST", NoRateLimit,
                       conversation_history)
    /\ UNCHANGED <<now, api_configured, rate_limit_store,
                   conversation_history, budget>>
    /\ UNCHANGED request_counts

\* conversation_history.append({"role": "user", "content": user_input})
HistAppend(q) ==
    /\ q.pc = "hist_append"
    /\ conversation_history' =
           Append(conversation_history,
                  [role |-> "user", content |-> q.client_id])
    /\ Goto(q, [q EXCEPT !.pc = "hist_cut"])
    /\ UNCHANGED <<now, api_configured, rate_limit_store, budget, trace>>
    /\ UNCHANGED request_counts

\* A slice that keeps one entry more.
LastEntriesLoose(h, n) ==
    IF Len(h) > n + 1 THEN SubSeq(h, Len(h) - n, Len(h)) ELSE h

\* h[-n:]
LastEntries(h, n) ==
    IF Len(h) > n THEN SubSeq(h, Len(h) - n + 1, Len(h)) ELSE h

\* if len(conversation_history) > 20:
HistCut(q) ==
    /\ q.pc = "hist_cut"
    /\ Goto(q, [q EXCEPT !.pc = IF Len(conversation_history) > HISTORY_LIMIT
                                    THEN "hist_slice"
                                    ELSE "call_api"])
    /\ UNCHANGED <<now, api_configured, rate_limit_store,
                   conversation_history, budget, trace>>
    /\ UNCHANGED request_counts

\* ... conversation_history[-20:]: a new list, built from the global one
HistSlice(q) ==
    /\ q.pc = "hist_slice"
    /\ Goto(q, [q EXCEPT !.pc = "hist_store",
                         !.cut = LastEntries(conversation_history,
                                             HISTORY_LIMIT)])
    /\ UNCHANGED <<now, api_configured, rate_limit_store,
                   conversation_history, budget, trace, request_counts>>

\* conversation_history = ...: the global name is bound to the new list
HistStore(q) ==
    /\ q.pc = "hist_store"
    /\ conversation_history' = q.cut
    /\ Goto(q, [q EXCEPT !.pc = "call_api"])
    /\ UNCHANGED <<now, api_configured, rate_limit_store, budget, trace,
                   request_counts>>

\* A downstream call that is given the assistant's replies and, of the
\* users' messages, only those of the request's own client.
CallApiOwn(q, reply) ==
    LET Own(m) == m.role = "user" => m.content = q.client_id
    IN  /\ q.pc = "call_api"
        /\ Goto(q, [q EXCEPT !.pc = "chat_reply", !.called = TRUE,
                             !.reply = reply,
                             !.messages = SelectSeq(conversation_history,
                                                    Own)])
        /\ UNCHANGED <<now, api_configured, rate_limit_store,
                       conversation_history, budget, trace, request_counts>>

\* reply = call_gemini_api(conversation_history): a text, or None on any
\* failure (call_gemini_api catches every exception itself)
CallApi(q, reply) ==
    /\ q.pc = "call_api"
    /\ Goto(q, [q EXCEPT !.pc = "chat_reply", !.called = TRUE,
                         !.reply = reply,
                         !.messages = conversation_history])
    /\ UNCHANGED <<now, api_configured, rate_limit_store,
                   conversation_history, budget, trace>>
    /\ UNCHANGED request_counts

\* A response whose remaining is asked of the store again when it is built.
ChatReplyLive(q) ==
    /\ q.pc = "chat_reply"
    /\ IF q.reply # ""
          THEN /\ conversation_history' =
                      Append(conversation_history,
                             [role |-> "assistant", content |-> q.reply])
               /\ Respond(q, 200, "",
                          [limit |-> RATE_LIMIT_REQUESTS,
                           remaining |-> Remaining(Len(Stored(q.client_id))),
                           reset_in |-> RATE_LIMIT_WINDOW],
                          conversation_history')
          ELSE /\ UNCHANGED conversation_history
               /\ Respond(q, 500, "GEMINI_API_ERROR", NoRateLimit,
                          conversation_history)
    /\ UNCHANGED <<now, api_configured, rate_limit_store, budget>>
    /\ UNCHANGED request_counts

\* if reply: append the assistant's message and answer 200 with rate_limit;
\* else: 500 GEMINI_API_ERROR
ChatReply(q) ==
    /\ q.pc = "chat_reply"
    /\ IF q.reply # ""
          THEN /\ conversation_history' =
                      Append(conversation_history,
                             [role |-> "assistant", content |-> q.reply])
               /\ Respond(q, 200, "",
                          [limit |-> RATE_LIMIT_REQUESTS,
                           remaining |-> Remaining(q.request_count),
                           reset_in |-> RATE_LIMIT_WINDOW],
                          conversation_history')
          ELSE /\ UNCHANGED conversation_history
               /\ Respond(q, 500, "GEMINI_API_ERROR", NoRateLimit,
                          conversation_history)
    /\ UNCHANGED <<now, api_configured, rate_limit_store, budget>>
    /\ UNCHANGED request_counts

\* The clock moves on to a later instant.  Only datetime.now() observes the
\* clock, so it is moved right before a handler reads it.
Advance(points) ==
    /\ \E q \in InFlight :
           q.pc \in {"irl_now", "grt_now", "hourly_now", "hourly_test"}
    /\ \E t \in points : t > now /\ now' = t
    /\ UNCHANGED <<api_configured, rate_limit_store, conversation_history,
                   req, budget, trace>>
    /\ UNCHANGED request_counts

\* ------------------------------------------------------- specifications

\* Serialized, well-formed requests of one client over the whole clock.
Init == InitWith(MaxRequests, {TRUE})

Next ==
    \/ Start("A", "ok", 1)
    \/ \E q \in InFlight : ChatEntry(q)
    \/ \E q \in InFlight : IrlNow(q)
    \/ \E q \in InFlight : IrlTest(q)
    \/ \E q \in InFlight : IrlPop(q)
    \/ \E q \in InFlight : IrlCheck(q)
    \/ \E q \in InFlight : IrlLimited(q)
    \/ \E q \in InFlight : IrlAppend(q)
    \/ \E q \in InFlight : IrlAdmitted(q)
    \/ \E q \in InFlight : GrtLookup(q)
    \/ \E q \in InFlight : GrtOldest(q)
    \/ \E q \in InFlight : GrtNow(q)
    \/ \E q \in InFlight : ChatReject(q)
    \/ \E q \in InFlight : ChatBody(q)
    \/ \E q \in InFlight : HistAppend(q)
    \/ \E q \in InFlight : HistCut(q)
    \/ \E q \in InFlight : ChatReply(q)
    \/ \E q \in InFlight : CallApi(q, "reply")
    \/ Advance(ClockPoints)

Spec == Init /\ [][Next]_vars

\* Serialized requests of two clients, well-formed or not, answered by the
\* downstream API or not, with the API key configured or not.
InitTwo == InitWith(MaxRequestsTwo, BOOLEAN)

NextTwo ==
    \/ \E c \in Clients, body \in Bodies : Start(c, body, 1)
    \/ \E q \in InFlight : ChatEntry(q)
    \/ \E q \in InFlight : IrlNow(q)
    \/ \E q \in InFlight : IrlTest(q)
    \/ \E q \in InFlight : IrlPop(q)
    \/ \E q \in InFlight : IrlCheck(q)
    \/ \E q \in InFlight : IrlLimited(q)
    \/ \E q \in InFlight : IrlAppend(q)
    \/ \E q \in InFlight : IrlAdmitted(q)
    \/ \E q \in InFlight : GrtLookup(q)
    \/ \E q \in InFlight : GrtOldest(q)
    \/ \E q \in InFlight : GrtNow(q)
    \/ \E q \in InFlight : ChatReject(q)
    \/ \E q \in InFlight : ChatBody(q)
    \/ \E q \in InFlight : HistAppend(q)
    \/ \E q \in InFlight : HistCut(q)
    \/ \E q \in InFlight : ChatReply(q)
    \/ \E q \in InFlight, reply \in {"reply", ""} : CallApi(q, reply)
    \/ Advance(ClockPointsFew)

SpecTwo == InitTwo /\ [][NextTwo]_vars

\* Serialized, well-formed requests of two clients.
InitPair == InitWith(MaxRequestsPair, {TRUE})

NextPair ==
    \/ \E c \in Clients : Start(c, "ok", 1)
    \/ \E q \in InFlight : ChatEntry(q)
    \/ \E q \in InFlight : IrlNow(q)
    \/ \E q \in InFlight : IrlTest(q)
    \/ \E q \in InFlight : IrlPop(q)
    \/ \E q \in InFlight : IrlCheck(q)
    \/ \E q \in InFlight : IrlLimited(q)
    \/ \E q \in InFlight : IrlAppend(q)
    \/ \E q \in InFlight : IrlAdmitted(q)
    \/ \E q \in InFlight : GrtLookup(q)
    \/ \E q \in InFlight : GrtOldest(q)
    \/ \E q \in InFlight : GrtNow(q)
    \/ \E q \in InFlight : ChatReject(q)
    \/ \E q \in InFlight : ChatBody(q)
    \/ \E q \in InFlight : HistAppend(q)
    \/ \E q \in InFlight : HistCut(q)
    \/ \E q \in InFlight : ChatReply(q)
    \/ \E q \in InFlight : CallApi(q, "reply")
    \/ Advance(ClockPointsPair)

SpecPair == InitPair /\ [][NextPair]_vars

\* Concurrent requests of one brand-new client, one more than the limit.
\* Their bodies hold no JSON, so that none goes past the validation of the
\* body: the steps after it are never enabled and are left out.
Concurrent == RATE_LIMIT_REQUESTS + 1

InitConc == InitWith(Concurrent, {TRUE})

NextConc ==
    \/ Start("A", "nojson", Concurrent)
    \/ \E q \in InFlight : ChatEntry(q)
    \/ \E q \in InFlight : IrlNow(q)
    \/ \E q \in InFlight : IrlTest(q)
    \/ \E q \in InFlight : IrlPop(q)
    \/ \E q \in InFlight : IrlCheck(q)
    \/ \E q \in InFlight : IrlLimited(q)
    \/ \E q \in InFlight : IrlAppend(q)
    \/ \E q \in InFlight : IrlAdmitted(q)
    \/ \E q \in InFlight : GrtLookup(q)
    \/ \E q \in InFlight : GrtOldest(q)
    \/ \E q \in InFlight : GrtNow(q)
    \/ \E q \in InFlight : ChatReject(q)
    \/ \E q \in InFlight : ChatBody(q)
    \/ Advance(ClockPointsFew)

SpecConc == InitConc /\ [][NextConc]_vars

\* Well-formed requests of one client, up to two of them in flight at the
\* same time: a second request arrives while the first is in the limiter or
\* waits for the downstream API.
InFlightOverlap == 2

InitOverlap == InitWith(MaxRequestsOverlap, {TRUE})

NextOverlap ==
    \/ Start("A", "ok", InFlightOverlap)
    \/ \E q \in InFlight : ChatEntry(q)
    \/ \E q \in InFlight : IrlNow(q)
    \/ \E q \in InFlight : IrlTest(q)
    \/ \E q \in InFlight : IrlPop(q)
    \/ \E q \in InFlight : IrlCheck(q)
    \/ \E q \in InFlight : IrlLimited(q)
    \/ \E q \in InFlight : IrlAppend(q)
    \/ \E q \in InFlight : IrlAdmitted(q)
    \/ \E q \in InFlight : GrtLookup(q)
    \/ \E q \in InFlight : GrtOldest(q)
    \/ \E q \in InFlight : GrtNow(q)
    \/ \E q \in InFlight : ChatReject(q)
    \/ \E q \in InFlight : ChatBody(q)
    \/ \E q \in InFlight : HistAppend(q)
    \/ \E q \in InFlight : HistCut(q)
    \/ \E q \in InFlight : ChatReply(q)
    \/ \E q \in InFlight : CallApi(q, "reply")
    \/ Advance(ClockPointsOverlap)

SpecOverlap == InitOverlap /\ [][NextOverlap]_vars

\* Requests of one client, up to two of them in the limiter at the same
\* time.  Their bodies hold no JSON, as in SpecConc.
InitRace == InitWith(MaxRequestsRace, {TRUE})

NextRace ==
    \/ Start("A", "nojson", InFlightOverlap)
    \/ \E q \in InFlight : ChatEntry(q)
    \/ \E q \in InFlight : IrlNow(q)
    \/ \E q \in InFlight : IrlTest(q)
    \/ \E q \in InFlight : IrlPop(q)
    \/ \E q \in InFlight : IrlCheck(q)
    \/ \E q \in InFlight : IrlLimited(q)
    \/ \E q \in InFlight : IrlAppend(q)
    \/ \E q \in InFlight : IrlAdmitted(q)
    \/ \E q \in InFlight : GrtLookup(q)
    \/ \E q \in InFlight : GrtOldest(q)
    \/ \E q \in InFlight : GrtNow(q)
    \/ \E q \in InFlight : ChatReject(q)
    \/ \E q \in InFlight : ChatBody(q)
    \/ Advance(ClockPointsRace)

SpecRace == InitRace /\ [][NextRace]_vars

\* Requests with every combination of headers and peer address, all at the
\* first instant and up to two of them in flight.  With so few requests no
\* timestamp gets old and no client reaches the limit: the steps of the
\* purge and of the rejection are never enabled and are left out.
InitIdent ==
    /\ now = 0
    /\ api_configured = TRUE
    /\ rate_limit_store = <<>>
    /\ conversation_history = <<>>
    /\ req = EmptyBag
    /\ budget = MaxRequestsIdent
    /\ trace = [c \in Identifiers |-> <<>>]
    /\ request_counts = <<>>

NextIdent ==
    \/ \E request \in Requests : StartIdent(request, InFlightOverlap)
    \/ \E q \in InFlight : ChatEntry(q)
    \/ \E q \in InFlight : IrlNow(q)
    \/ \E q \in InFlight : IrlTest(q)
    \/ \E q \in InFlight : IrlCheck(q)
    \/ \E q \in InFlight : IrlAppend(q)
    \/ \E q \in InFlight : IrlAdmitted(q)
    \/ \E q \in InFlight : ChatBody(q)

SpecIdent == InitIdent /\ [][NextIdent]_vars

\* ------------------------------------------------------------ the claims

Admitted(e) == e.checked /\ ~e.is_limited

Rejected(e) == e.checked /\ e.is_limited

\* How many of the timestamps d lie within the trailing window of time t.
WindowCount(d, t) == Cardinality({i \in DOMAIN d : d[i] >= t - WindowTicks})

\* The first k responses to client A are to requests at the seconds times.
Follows(times, k) ==
    /\ k <= Len(trace["A"])
    /\ k <= Len(times)
    /\ \A i \in 1 .. k : trace["A"][i].t = Sec(times[i])

\* C1: with N = 3 and W = 60, for every client and every sequence of
\* serialized is_rate_limited calls at non-decreasing times, at most N of the
\* admitted calls have their timestamp in any closed interval of length W.
\* (Such an interval with the most admissions starts at an admission.)
C1_AtMostNPerWindow ==
    \A c \in Clients : \A i \in DOMAIN trace[c] :
        Admitted(trace[c][i]) =>
            Cardinality({j \in DOMAIN trace[c] :
                            /\ Admitted(trace[c][j])
                            /\ trace[c][i].t <= trace[c][j].t
                            /\ trace[c][j].t <= trace[c][i].t + WindowTicks})
                <= RATE_LIMIT_REQUESTS

\* N admissions, a rejection exactly one window after the first of them, and
\* one more admission after that.
C1_Witness ==
    \E i, j, k \in DOMAIN trace["A"] :
        /\ Admitted(trace["A"][i])
        /\ Rejected(trace["A"][j])
        /\ trace["A"][j].t = trace["A"][i].t + WindowTicks
        /\ Admitted(trace["A"][k])
        /\ trace["A"][k].t > trace["A"][j].t
        /\ Cardinality({m \in DOMAIN trace["A"] : Admitted(trace["A"][m])})
               = RATE_LIMIT_REQUESTS + 1

\* C2: when M > N requests of one brand-new client run is_rate_limited at the
\* same instant, concurrently, the client's deque never holds more than N
\* timestamps, never more than N are admitted, and once all have been
\* answered exactly N were admitted and M - N rejected.
C2_ExactlyNAdmitted ==
    now = 0 =>
        /\ Len(Stored("A")) <= RATE_LIMIT_REQUESTS
        /\ Cardinality({i \in DOMAIN trace["A"] : Admitted(trace["A"][i])})
               <= RATE_LIMIT_REQUESTS
        /\ (budget = 0 /\ req = EmptyBag) =>
               /\ Cardinality({i \in DOMAIN trace["A"] :
                                  Admitted(trace["A"][i])})
                      = RATE_LIMIT_REQUESTS
               /\ Cardinality({i \in DOMAIN trace["A"] :
                                  Rejected(trace["A"][i])})
                      = Concurrent - RATE_LIMIT_REQUESTS

\* C3: a call of is_rate_limited at time now admits the request if and only
\* if fewer than N of the client's stored timestamps lie within the trailing
\* W seconds of now, and rejects it if and only if N or more do.
C3_AdmitIffBelowLimit ==
    \A c \in Clients : \A i \in DOMAIN trace[c] :
        LET e == trace[c][i]
        IN  e.checked =>
                /\ ~e.is_limited <=>
                       WindowCount(e.pre, e.t) < RATE_LIMIT_REQUESTS
                /\ e.is_limited <=>
                       WindowCount(e.pre, e.t) >= RATE_LIMIT_REQUESTS

\* A rejection, and an admission of a client whose deque held N timestamps,
\* not all of them within the window.
C3_Witness ==
    \E i, j \in DOMAIN trace["A"] :
        /\ Rejected(trace["A"][i])
        /\ Admitted(trace["A"][j])
        /\ Len(trace["A"][j].pre) = RATE_LIMIT_REQUESTS
        /\ WindowCount(trace["A"][j].pre, trace["A"][j].t) = 1

\* C4: a rejected is_rate_limited call appends no timestamp; calls in
\* immediate succession (same now) for a client at the limit are all
\* rejected and leave the client's timestamps exactly as they were before
\* the first of them.
C4_RejectionLeavesStore ==
    \A c \in Clients : \A i, j \in DOMAIN trace[c] :
        (/\ i <= j
         /\ Rejected(trace[c][i])
         /\ trace[c][j].checked
         /\ trace[c][j].t = trace[c][i].t)
            => /\ Rejected(trace[c][j])
               /\ trace[c][j].post = trace[c][i].pre

\* Two rejections in immediate succession.
C4_Witness ==
    \E i \in DOMAIN trace["A"] :
        /\ i + 1 \in DOMAIN trace["A"]
        /\ Rejected(trace["A"][i])
        /\ Rejected(trace["A"][i + 1])
        /\ trace["A"][i + 1].t = trace["A"][i].t
        /\ Len(trace["A"][i + 1].post) = RATE_LIMIT_REQUESTS

\* C5: a chat request that is_rate_limited reports limited never invokes
\* call_gemini_api and leaves conversation_history as it found it, and every
\* invocation of call_gemini_api comes after an is_rate_limited call of the
\* same request that admitted it.
C5_LimiterBeforeDownstream ==
    /\ \A q \in InFlight :
           /\ q.is_limited => ~q.called /\ conversation_history = q.hist
           /\ (q.called \/ q.pc \in {"hist_append", "hist_cut", "call_api"})
                  => q.checked /\ ~q.is_limited
    /\ \A c \in Clients : \A i \in DOMAIN trace[c] :
           LET e == trace[c][i]
           IN  /\ e.is_limited => ~e.called /\ e.hist_post = e.hist_pre
               /\ e.called => e.checked /\ ~e.is_limited

\* A rejected request that came when the history was not empty, and an
\* answered one.
C5_Witness ==
    \E c, d \in Clients :
        /\ \E i \in DOMAIN trace[c] :
               /\ trace[c][i].status = 429
               /\ trace[c][i].hist_pre # <<>>
        /\ \E j \in DOMAIN trace[d] :
               /\ trace[d][j].called
               /\ trace[d][j].status = 200

\* The responses to client c obey C6: each is_rate_limited call found the
\* timestamps that the client's previous request left.
OwnHistoryOnly(c) ==
    \A i \in DOMAIN trace[c] :
        trace[c][i].checked =>
            trace[c][i].pre = (IF i = 1 THEN <<>> ELSE trace[c][i - 1].post)

\* Two is_rate_limited calls that found the same timestamps at the same time
\* returned the same, whoever the clients are.
SameOutcome(e, f) ==
    (e.checked /\ f.checked /\ e.pre = f.pre /\ e.t = f.t)
        => /\ e.is_limited = f.is_limited
           /\ e.request_count = f.request_count
           /\ e.post = f.post

\* A step of a request of one client leaves every other client's timestamps
\* as they are.
OthersUntouched ==
    \A q \in InFlight : \A b \in Clients :
        b # q.client_id =>
            /\ Stored(b)' = Stored(b)
            /\ (b \in DOMAIN rate_limit_store')
                   = (b \in DOMAIN rate_limit_store)

\* C6: for distinct clients A and B, the is_rate_limited and
\* get_rate_limit_reset_time calls for A leave B's timestamps unchanged, and
\* what is returned for B depends only on B's own earlier calls and the time.
C6_ClientsIsolated ==
    /\ [](\A c \in Clients : OwnHistoryOnly(c))
    /\ [](\A c, d \in Clients :
            \A i \in DOMAIN trace[c], j \in DOMAIN trace[d] :
                SameOutcome(trace[c][i], trace[d][j]))
    /\ [][OthersUntouched]_vars

\* A is rejected, with a reset time, at the instant B was admitted with
\* count 1, and B's timestamp is still the only one stored for B.
C6_Witness ==
    /\ Len(Stored("A")) = RATE_LIMIT_REQUESTS
    /\ Stored("B") # <<>>
    /\ \E i \in DOMAIN trace["A"], j \in DOMAIN trace["B"] :
           /\ trace["A"][i].status = 429
           /\ trace["A"][i].reset_at # NoTime
           /\ Admitted(trace["B"][j])
           /\ trace["B"][j].request_count = 1
           /\ trace["B"][j].t = trace["A"][i].t
           /\ Stored("B") = <<trace["B"][j].t>>

\* C7: the window slides per timestamp.  A client whose N admissions at
\* t0 <= t1 <= t2 are all it has stored is rejected at every later time
\* t <= t0 + W and admitted at the first time t > t0 + W; in particular,
\* after admissions at 0, 1 and 2 s it is rejected from 3 s to 59 s.
C7_SlidingWindow ==
    \A c \in Clients : \A i \in DOMAIN trace[c] :
        LET e == trace[c][i]
        IN  (e.checked /\ Len(e.pre) = RATE_LIMIT_REQUESTS) =>
                /\ e.t <= e.pre[1] + WindowTicks => Rejected(e)
                /\ e.t > e.pre[1] + WindowTicks => Admitted(e)
                /\ (/\ e.pre = <<Sec(0), Sec(1), Sec(2)>>
                    /\ e.t >= Sec(3)
                    /\ e.t <= Sec(59)) => Rejected(e)

\* After admissions at 0, 1 and 2 s: rejected at 60 s, admitted at the next
\* instant.
C7_Witness ==
    /\ Follows(<<0, 1, 2, RATE_LIMIT_WINDOW>>, 4)
    /\ Len(trace["A"]) = 5
    /\ Rejected(trace["A"][4])
    /\ trace["A"][5].t = Sec(RATE_LIMIT_WINDOW) + 1
    /\ Admitted(trace["A"][5])

\* C8: whenever a chat request of a client is rejected at time t with
\* reset_in = r in the response, the client's next request, if it comes at
\* time t + r, is admitted.  (Stated for r > 0, a delay the client can wait.)
C8_AdmittedAfterResetIn ==
    \A c \in Clients : \A i \in DOMAIN trace[c] :
        (/\ i + 1 \in DOMAIN trace[c]
         /\ trace[c][i].status = 429
         /\ trace[c][i].rate_limit.reset_in > 0
         /\ trace[c][i + 1].checked
         /\ trace[c][i + 1].t
                = trace[c][i].t + Sec(trace[c][i].rate_limit.reset_in))
            => Admitted(trace[c][i + 1])

\* The requests of C9's scenario, as far as they came at its times, with the
\* count n reported for the fifth.
Scenario9(n) ==
    LET times == <<0, 1, 2, 3, 61>>
        T == trace["A"]
    IN  /\ \A k \in 1 .. 3 : Follows(times, k) => Admitted(T[k])
        /\ Follows(times, 4) =>
               /\ Rejected(T[4])
               /\ T[4].status = 429
               /\ T[4].reset_at = Sec(3) => T[4].rate_limit.reset_in = 57
        /\ Follows(times, 5) =>
               /\ Admitted(T[5])
               /\ T[5].request_count = n

\* C9, as stated: requests of A at 0, 1, 2 s are admitted, the one at 3 s is
\* rejected with reset_in 57, the fifth at 61 s is admitted and the count the
\* limiter reports for it is 1.
C9_AsStated == Scenario9(1)

\* C9, amended: requests of A at 0, 1, 2 s are admitted, the one at 3 s is
\* rejected with reset_in 57 (the clock read again at 3 s), the fifth at 61 s
\* is admitted and the count the limiter reports for it is 3: only the
\* timestamp of 0 s has aged out, those of 1 s and 2 s are still stored.
C9_Scenario == Scenario9(3)

\* The five requests of the scenario have been answered.
C9_Witness ==
    /\ Follows(<<0, 1, 2, 3, 61>>, 5)
    /\ trace["A"][4].reset_at = Sec(3)
    /\ trace["A"][5].post = <<Sec(1), Sec(2), Sec(61)>>

\* C10: with N = 3, W = 60 and a fresh client, requests at 0, 10, 20 s are
\* admitted with counts 1, 2, 3; the one at 30 s is rejected with count 3
\* and the stored count stays 3; at 61 s get_rate_limit_reset_time, before
\* the next request, returns 0, and the request at 61 s is admitted with
\* count 3, the timestamp of 0 s purged and the new one appended.
C10_Scenario ==
    LET times == <<0, 10, 20, 30, 61>>
        T == trace["A"]
    IN  /\ \A k \in 1 .. 3 :
               Follows(times, k) =>
                   Admitted(T[k]) /\ T[k].request_count = k
        /\ Follows(times, 4) =>
               /\ Rejected(T[4])
               /\ T[4].request_count = 3
               /\ Len(T[4].post) = 3
        /\ Follows(times, 5) =>
               /\ GetRateLimitResetTime(T[5].pre, T[5].t) = 0
               /\ Admitted(T[5])
               /\ T[5].request_count = 3
               /\ T[5].post = <<Sec(10), Sec(20), Sec(61)>>

C10_Witness ==
    /\ Follows(<<0, 10, 20, 30, 61>>, 5)
    /\ trace["A"][5].pre = <<Sec(0), Sec(10), Sec(20)>>
    /\ req = EmptyBag

\* C11: every chat request that the sliding limiter rejects is answered with
\* status 429, error "RATE_LIMIT_EXCEEDED" and rate_limit = {limit: N,
\* remaining: 0, reset_in: what get_rate_limit_reset_time returned for the
\* client, current_requests: the count is_rate_limited returned}; the
\* rejection is a response value and no exception is raised on the way to it.
C11_RejectedGets429 ==
    /\ \A q \in InFlight :
           q.pc = "chat_reject" =>
               /\ q.is_limited
               /\ q.reset_time =
                      (IF q.reset_at = NoTime
                          THEN 0 ELSE ResetIn(q.oldest_request, q.reset_at))
    /\ \A c \in Clients : \A i \in DOMAIN trace[c] :
           LET e == trace[c][i]
           IN  Rejected(e) =>
                   /\ e.status = 429
                   /\ e.error = "RATE_LIMIT_EXCEEDED"
                   /\ e.rate_limit.limit = RATE_LIMIT_REQUESTS
                   /\ e.rate_limit.remaining = 0
                   /\ e.rate_limit.reset_in \in 0 .. RATE_LIMIT_WINDOW
                   /\ e.rate_limit.current_requests = e.request_count

\* C12: an admitted is_rate_limited call returns the count after its own
\* timestamp is appended, and a successful chat response carries rate_limit =
\* {limit: N, remaining: max(0, N - that count), reset_in: W}; so the k-th
\* admitted request of a fresh window reports remaining = N - k, remaining
\* is always in 0 .. N-1, and reset_in on success is always W.
C12_RemainingOnSuccess ==
    \A c \in Clients : \A i \in DOMAIN trace[c] :
        LET e == trace[c][i]
            k == WindowCount(e.pre, e.t) + 1
        IN  /\ Admitted(e) =>
                /\ e.post # <<>>
                /\ e.post[Len(e.post)] = e.t
                /\ e.request_count = Len(e.post)
                /\ e.request_count = k
            /\ e.status = 200 =>
                /\ Admitted(e)
                /\ e.rate_limit.limit = RATE_LIMIT_REQUESTS
                /\ e.rate_limit.reset_in = RATE_LIMIT_WINDOW
                /\ e.rate_limit.remaining \in 0 .. (RATE_LIMIT_REQUESTS - 1)
                /\ e.rate_limit.remaining = RATE_LIMIT_REQUESTS - k

\* A window filled up to remaining = 0, and the first request of the next
\* window, answered with remaining = N - 1.
C12_Witness ==
    \E i, j \in DOMAIN trace["A"] :
        /\ i < j
        /\ trace["A"][i].status = 200
        /\ trace["A"][i].rate_limit.remaining = 0
        /\ trace["A"][j].status = 200
        /\ WindowCount(trace["A"][j].pre, trace["A"][j].t) = 0
        /\ trace["A"][j].rate_limit.remaining = RATE_LIMIT_REQUESTS - 1

\* A step keeps what C13 says of handler q: q stays where it is, or moves on
\* with its locals as they were, or returns a response that reports the
\* count of its own check.
CountKept(q) ==
    \/ q \in InFlight'
    \/ \E q2 \in InFlight' :
           q2 = [q EXCEPT !.pc = q2.pc, !.called = q2.called,
                          !.reply = q2.reply, !.cut = q2.cut,
                          !.messages = q2.messages]
    \/ \E e \in {trace'[q.client_id][Len(trace'[q.client_id])]} :
           /\ Len(trace'[q.client_id]) = Len(trace[q.client_id]) + 1
           /\ e.request_count = q.request_count
           /\ e.status = 200 =>
                  /\ e.rate_limit.remaining >= 0
                  /\ e.rate_limit.remaining
                         >= RATE_LIMIT_REQUESTS - q.request_count
                  /\ e.rate_limit.remaining
                         \in {0, RATE_LIMIT_REQUESTS - q.request_count}

\* C13: the remaining of a successful chat response is fixed by the count
\* that the request's own is_rate_limited call returned: requests of the same
\* client that are admitted, rejected or purged between that call and the
\* response, while the downstream call runs, do not change it.
C13_RemainingFixedAtCheck ==
    [][\A q \in InFlight : (q.checked /\ ~q.is_limited) => CountKept(q)]_vars

\* A request admitted with count 1 is answered, with remaining N - 1, after
\* two more requests of the client were admitted and one was rejected.
C13_Witness ==
    \E i, j \in DOMAIN trace["A"] :
        /\ i < j
        /\ trace["A"][i].status = 429
        /\ trace["A"][j].status = 200
        /\ trace["A"][j].request_count = 1
        /\ trace["A"][j].rate_limit.remaining = RATE_LIMIT_REQUESTS - 1
        /\ Len(trace["A"][j].post) = RATE_LIMIT_REQUESTS

\* C14: get_rate_limit_reset_time returns 0 when it finds the client's
\* sequence empty (a client never seen before included); otherwise it
\* returns oldest + W - now rounded down to whole seconds when oldest + W >
\* now, and 0 when not.  What it returns is a whole number in 0 .. W, and a
\* rejection response can carry reset_in = 0.
C14_ResetTime ==
    /\ \A q \in InFlight :
           q.pc = "chat_reject" =>
               LET r == q.reset_time
                   left == q.oldest_request + WindowTicks - q.reset_at
               IN  /\ r \in 0 .. RATE_LIMIT_WINDOW
                   /\ q.oldest_request = NoTime => r = 0
                   /\ (q.oldest_request # NoTime /\ left > 0) =>
                          Sec(r) <= left /\ left < Sec(r + 1)
                   /\ (q.oldest_request # NoTime /\ left <= 0) => r = 0
    /\ \A c \in Clients : \A i \in DOMAIN trace[c] :
           trace[c][i].status = 429 =>
               trace[c][i].rate_limit.reset_in \in 0 .. RATE_LIMIT_WINDOW

\* A rejection half a second after three admissions, with the 59.5 s left
\* reported as 59, and a rejection exactly one window after them, with
\* reset_in = 0.
C14_Witness ==
    \E i, j \in DOMAIN trace["A"] :
        /\ trace["A"][i].status = 429
        /\ trace["A"][i].pre # <<>>
        /\ trace["A"][i].pre[1] + WindowTicks - trace["A"][i].reset_at
               \notin {Sec(s) : s \in 0 .. RATE_LIMIT_WINDOW}
        /\ trace["A"][i].rate_limit.reset_in > 0
        /\ trace["A"][j].status = 429
        /\ trace["A"][j].pre # <<>>
        /\ trace["A"][j].reset_at = trace["A"][j].pre[1] + WindowTicks
        /\ trace["A"][j].rate_limit.reset_in = 0

\* C15: is_rate_limited and get_rate_limit_reset_time return a value for
\* every client and every state of the store, and never raise; the first
\* is_rate_limited call for an identifier that is not in the store yet finds
\* an empty window and admits the request with count 1.
C15_LimiterNeverRaises ==
    /\ \A c \in Clients : \A i \in DOMAIN trace[c] :
           trace[c][i].error # "INTERNAL_SERVER_ERROR"
    /\ \A q \in InFlight :
           (/\ q.checked
            /\ trace[q.client_id] = <<>>
            /\ \A q2 \in InFlight : q2.client_id = q.client_id => q2 = q
            /\ req[q] = 1)
               => /\ q.pre = <<>>
                  /\ ~q.is_limited
                  /\ q.request_count = 1

\* id is the first comma-separated token of the string s, without the blanks
\* around it.
IsFirstTokenTrimmed(id, s) ==
    \E k \in 1 .. (Len(s) + 1) :
        /\ k = Len(s) + 1 \/ s[k] = ","
        /\ \A i \in 1 .. (k - 1) : s[i] # ","
        /\ LET token == SubSeq(s, 1, k - 1)
           IN  \E a \in 1 .. (Len(token) + 1), b \in 0 .. Len(token) :
                   /\ id = SubSeq(token, a, b)
                   /\ \A i \in 1 .. (a - 1) : token[i] = " "
                   /\ \A i \in (b + 1) .. Len(token) : token[i] = " "
                   /\ id # <<>> => id[1] # " " /\ id[Len(id)] # " "

\* The identifier of every request in flight follows the priority order,
\* where Given(v) says when a header or an address counts.
IdentifierByPriority(Given(_)) ==
    \A q \in InFlight :
        LET r == q.request
        IN  IF Given(r.forwarded_for)
                THEN IsFirstTokenTrimmed(q.client_id, r.forwarded_for)
            ELSE IF Given(r.real_ip)
                THEN q.client_id = r.real_ip
            ELSE IF Truthy(r.remote_addr)
                THEN q.client_id = r.remote_addr
            ELSE q.client_id = Unknown

\* The same headers and peer address give the same identifier.
SameRequestSameIdentifier ==
    \A q1, q2 \in InFlight :
        q1.request = q2.request => q1.client_id = q2.client_id

IsPresent(v) == v # None

\* C16, as stated: get_client_identifier takes the first match of: the first
\* comma-separated token, trimmed, of X-Forwarded-For if that header is
\* present; X-Real-IP verbatim if that header is present; the peer address;
\* the literal "unknown".  The same request always gets the same identifier.
C16_AsStated ==
    /\ IdentifierByPriority(IsPresent)
    /\ SameRequestSameIdentifier

\* C16, amended: a header counts only if it is present and not empty.  The
\* first match of: the first comma-separated token, trimmed, of a non-empty
\* X-Forwarded-For (the token itself may be empty); a non-empty X-Real-IP,
\* verbatim; a non-empty peer address; the literal "unknown".  The same
\* request always gets the same identifier.
C16_Identifier ==
    /\ IdentifierByPriority(Truthy)
    /\ SameRequestSameIdentifier

\* Two requests in the limiter: one identified by the token before the comma
\* of its X-Forwarded-For, one with an empty X-Forwarded-For identified by
\* its X-Real-IP, blank included.
C16_Witness ==
    \E q1, q2 \in InFlight :
        /\ q1.request.forwarded_for = <<" ", "A">>
        /\ q1.request.real_ip = <<"B">>
        /\ q1.client_id = <<"A">>
        /\ q1.checked
        /\ q2.request.forwarded_for = <<>>
        /\ q2.request.real_ip = <<" ", "B">>
        /\ q2.client_id = <<" ", "B">>
        /\ q2.checked

LookedUp(c) ==
    \/ \E q \in InFlight : q.client_id = c /\ q.now # NoTime
    \/ \E i \in DOMAIN trace[c] : trace[c][i].t # NoTime

\* C18: a client's entry in rate_limit_store is created by the first lookup
\* for that identifier and is never removed: over any sequence of chat
\* requests the set of keys only grows, also when all timestamps of a client
\* have been purged.
C18_KeysOnlyGrow ==
    /\ [](\A c \in Clients : c \in DOMAIN rate_limit_store <=> LookedUp(c))
    /\ [][DOMAIN rate_limit_store \subseteq DOMAIN rate_limit_store']_vars

\* Client A was admitted, all its timestamps have been purged and its key is
\* still there, with an empty sequence; B has a key of its own.
C18_Witness ==
    /\ "A" \in DOMAIN rate_limit_store
    /\ "B" \in DOMAIN rate_limit_store
    /\ Stored("A") = <<>>
    /\ \E i \in DOMAIN trace["A"] : Admitted(trace["A"][i])

\* C19: in every reachable state, also with concurrent is_rate_limited calls
\* for one client (each samples now on entry and appends it later), every
\* client's timestamps are in non-decreasing order, so that the purge from
\* the front removes every timestamp older than now - W.
C19_SequenceSorted ==
    \A c \in DOMAIN rate_limit_store :
        \A i, j \in DOMAIN rate_limit_store[c] :
            i < j => rate_limit_store[c][i] <= rate_limit_store[c][j]

\* C20: with chat requests handled one after the other, every client's
\* sequence holds at most N timestamps in every reachable state, and so
\* every rejection response reports current_requests = N.
C20_AtMostNStored ==
    /\ \A c \in Clients : Len(Stored(c)) <= RATE_LIMIT_REQUESTS
    /\ \A q \in InFlight :
           (q.checked /\ q.is_limited) =>
               q.request_count = RATE_LIMIT_REQUESTS
    /\ \A c \in Clients : \A i \in DOMAIN trace[c] :
           trace[c][i].status = 429 =>
               trace[c][i].rate_limit.current_requests = RATE_LIMIT_REQUESTS

\* A rejection has been answered while N timestamps are stored, and a later
\* request has been admitted into a full sequence again.
C20_Witness ==
    /\ Len(Stored("A")) = RATE_LIMIT_REQUESTS
    /\ \E i, j \in DOMAIN trace["A"] :
           /\ i < j
           /\ trace["A"][i].status = 429
           /\ trace["A"][i].rate_limit.current_requests = RATE_LIMIT_REQUESTS
           /\ Admitted(trace["A"][j])
           /\ trace["A"][j].request_count = RATE_LIMIT_REQUESTS

\* How many of the first j - 1 requests of client c were admitted at most one
\* window before the j-th, whatever they were answered in the end.
AdmittedBefore(c, j) ==
    Cardinality({k \in 1 .. j - 1 :
                    /\ Admitted(trace[c][k])
                    /\ trace[c][k].t >= trace[c][j].t - WindowTicks})

\* C21: the slot recorded at admission is never given back.  With requests
\* handled one after the other, an admitted request leaves its timestamp as
\* the last of its client's sequence whatever its answer is (200, 400, 500),
\* the client's next request finds the sequence as that answer left it, and
\* every later request is judged and counted against all the admissions of
\* its trailing window, the failed ones included.
C21_SlotNeverRolledBack ==
    \A c \in Clients : \A i \in DOMAIN trace[c] :
        LET e == trace[c][i]
        IN  /\ Admitted(e) =>
                   /\ e.post # <<>>
                   /\ e.post[Len(e.post)] = e.t
                   /\ (i = Len(trace[c]) /\ \A q \in InFlight : q.client_id # c)
                          => Stored(c) = e.post
                   /\ (i < Len(trace[c]) /\ trace[c][i + 1].checked)
                          => trace[c][i + 1].pre = e.post
            /\ e.checked =>
                   /\ e.is_limited
                          <=> AdmittedBefore(c, i) >= RATE_LIMIT_REQUESTS
                   /\ e.request_count =
                          AdmittedBefore(c, i) + (IF e.is_limited THEN 0 ELSE 1)

\* N admitted requests of one client, none of them answered 200 (a 400 and a
\* 500 among them), and then a rejection within their window.
C21_Witness ==
    \E c \in Clients :
        /\ Len(trace[c]) = RATE_LIMIT_REQUESTS + 1
        /\ \A i \in 1 .. RATE_LIMIT_REQUESTS :
               /\ Admitted(trace[c][i])
               /\ trace[c][i].status \in {400, 500}
        /\ \E i \in 1 .. RATE_LIMIT_REQUESTS : trace[c][i].status = 400
        /\ \E i \in 1 .. RATE_LIMIT_REQUESTS :
               /\ trace[c][i].status = 500
               /\ trace[c][i].error = "GEMINI_API_ERROR"
        /\ trace[c][RATE_LIMIT_REQUESTS + 1].status = 429
        /\ trace[c][RATE_LIMIT_REQUESTS + 1].pre =
               trace[c][RATE_LIMIT_REQUESTS].post

\* C22: when the API key is not configured, every chat request is answered
\* 500 API_NOT_CONFIGURED at once: the handler never resolves the identity,
\* never enters is_rate_limited and never calls the downstream API, and
\* rate_limit_store and conversation_history stay as they were (no key is
\* created, no timestamp recorded).  With the key configured no request gets
\* that answer.
C22_NotConfiguredTouchesNothing ==
    /\ ~api_configured =>
           /\ rate_limit_store = <<>>
           /\ conversation_history = <<>>
           /\ \A q \in InFlight :
                  q.pc = "chat" /\ ~q.checked /\ ~q.called /\ q.now = NoTime
    /\ \A c \in Clients : \A i \in DOMAIN trace[c] :
           LET e == trace[c][i]
           IN  /\ ~api_configured =>
                      /\ e.status = 500
                      /\ e.error = "API_NOT_CONFIGURED"
                      /\ ~e.checked /\ ~e.called
                      /\ e.pre = <<>> /\ e.post = <<>>
                      /\ e.hist_post = e.hist_pre
               /\ api_configured => e.error # "API_NOT_CONFIGURED"

\* Without the key, both clients have been answered, one of them twice, by
\* requests of different bodies.
C22_Witness ==
    /\ ~api_configured
    /\ budget = 0
    /\ req = EmptyBag
    /\ Len(trace["A"]) >= 2
    /\ Len(trace["B"]) >= 1
    /\ \A c \in Clients : \A i \in DOMAIN trace[c] :
           trace[c][i].error = "API_NOT_CONFIGURED"

\* --------------------------- app_production: the fallback hourly counter
\*
\* app_production.py's chat() is app_gemini.py's behind one more gate, used
\* when the security packages are not installed (SECURITY_AVAILABLE false):
\* a counter per client key, restarted every hour.

\* if request_counts[client_ip]['count'] >= 30
HOURLY_LIMIT == 30

\* 'reset_time': current_time + 3600
HOURLY_WINDOW == 3600

HourTicks == HOURLY_WINDOW * TicksPerSecond

\* Requests served in one behaviour of SpecHourly.
MaxRequestsHourly == 32

\* The instants of SpecHourly: the start, one hour later to the tick, and
\* the first instant after that.
ClockPointsHourly == {Sec(0), Sec(HOURLY_WINDOW), Sec(HOURLY_WINDOW) + 1}

\* request_counts[client_ip] of a defaultdict: a missing key is created by
\* the lookup itself, with {'count': 0, 'reset_time': time.time() + 3600}.
LookupCount(counts, c, t) ==
    IF c \in DOMAIN counts
       THEN counts
       ELSE counts @@ (c :> [count |-> 0, reset_time |-> t + HourTicks])

\* An hour that is over as soon as its last instant is reached.
HourlyPastGe(t, reset) == t >= reset

\* current_time > request_counts[client_ip]['reset_time']
HourlyPast(t, reset) == t > reset

\* request_counts[client_ip]['count'] >= 30
HourlyFull(count) == count >= HOURLY_LIMIT

\* A POST /chat of client c arrives at app_production and a worker takes it.
\* The key of the hourly counter is the X-Forwarded-For header as sent, or
\* the peer address: for a client that sends no list of proxies it is the
\* identifier that get_client_identifier gives.
StartHourly(c, body, cap) ==
    /\ budget > 0
    /\ BagCardinality(req) < cap
    /\ req' = req (+) SetToBag({[NewRequest(c, body)
                                    EXCEPT !.pc = "hourly_now",
                                           !.stored = Stored(c)]})
    /\ budget' = budget - 1
    /\ UNCHANGED <<now, api_configured, rate_limit_store,
                   conversation_history, trace, request_counts>>

\* client_ip = ...; current_time = time.time()
HourlyNow(q) ==
    /\ q.pc = "hourly_now"
    /\ Goto(q, [q EXCEPT !.pc = "hourly_test", !.current_time = now])
    /\ UNCHANGED <<now, api_configured, rate_limit_store,
                   conversation_history, budget, trace, request_counts>>

\* if current_time > request_counts[client_ip]['reset_time']:
HourlyTest(q) ==
    /\ q.pc = "hourly_test"
    /\ request_counts' = LookupCount(request_counts, q.client_id, now)
    /\ Goto(q, [q EXCEPT
                   !.pc = IF HourlyPast(q.current_time,
                                        request_counts'[q.client_id].reset_time)
                             THEN "hourly_restart"
                             ELSE "hourly_check",
                   !.hourly_pre = request_counts'[q.client_id]])
    /\ UNCHANGED <<now, api_configured, rate_limit_store,
                   conversation_history, budget, trace>>

\* request_counts[client_ip] = {'count': 0, 'reset_time': current_time + 3600}
HourlyRestart(q) ==
    /\ q.pc = "hourly_restart"
    /\ request_counts' =
           (q.client_id :> [count |-> 0,
                            reset_time |-> q.current_time + HourTicks])
               @@ request_counts
    /\ Goto(q, [q EXCEPT !.pc = "hourly_check"])
    /\ UNCHANGED <<now, api_configured, rate_limit_store,
                   conversation_history, budget, trace>>

\* if request_counts[client_ip]['count'] >= 30: return ..., 429
HourlyCheck(q) ==
    /\ q.pc = "hourly_check"
    /\ request_counts' = LookupCount(request_counts, q.client_id, now)
    /\ IF HourlyFull(request_counts'[q.client_id].count)
          THEN Respond(q, 429, "RATE_LIMIT_EXCEEDED", NoRateLimit,
                       conversation_history)
          ELSE /\ Goto(q, [q EXCEPT !.pc = "hourly_incr"])
               /\ UNCHANGED trace
    /\ UNCHANGED <<now, api_configured, rate_limit_store,
                   conversation_history, budget>>

\* A counter that counts a request only when the API key is configured.
HourlyIncrConfigured(q) ==
    /\ q.pc = "hourly_incr"
    /\ request_counts' =
           IF api_configured
              THEN [LookupCount(request_counts, q.client_id, now)
                       EXCEPT ![q.client_id].count = @ + 1]
              ELSE request_counts
    /\ Goto(q, [q EXCEPT !.pc = "chat", !.counted = TRUE])
    /\ UNCHANGED <<now, api_configured, rate_limit_store,
                   conversation_history, budget, trace>>

\* request_counts[client_ip]['count'] += 1
HourlyIncr(q) ==
    /\ q.pc = "hourly_incr"
    /\ request_counts' =
           [LookupCount(request_counts, q.client_id, now)
               EXCEPT ![q.client_id].count = @ + 1]
    /\ Goto(q, [q EXCEPT !.pc = "chat", !.counted = TRUE])
    /\ UNCHANGED <<now, api_configured, rate_limit_store,
                   conversation_history, budget, trace>>

\* Serialized requests of one client to app_production without the security
\* packages, with the API key configured or not.  Their bodies hold no JSON,
\* so that none goes past the validation of the body.
InitHourly == InitWith(MaxRequestsHourly, BOOLEAN)

NextHourly ==
    \/ StartHourly("A", "nojson", 1)
    \/ \E q \in InFlight : HourlyNow(q)
    \/ \E q \in InFlight : HourlyTest(q)
    \/ \E q \in InFlight : HourlyRestart(q)
    \/ \E q \in InFlight : HourlyCheck(q)
    \/ \E q \in InFlight : HourlyIncr(q)
    \/ \E q \in InFlight : ChatEntry(q)
    \/ \E q \in InFlight : IrlNow(q)
    \/ \E q \in InFlight : IrlTest(q)
    \/ \E q \in InFlight : IrlPop(q)
    \/ \E q \in InFlight : IrlCheck(q)
    \/ \E q \in InFlight : IrlLimited(q)
    \/ \E q \in InFlight : IrlAppend(q)
    \/ \E q \in InFlight : IrlAdmitted(q)
    \/ \E q \in InFlight : GrtLookup(q)
    \/ \E q \in InFlight : GrtOldest(q)
    \/ \E q \in InFlight : GrtNow(q)
    \/ \E q \in InFlight : ChatReject(q)
    \/ \E q \in InFlight : ChatBody(q)
    \/ Advance(ClockPointsHourly)

SpecHourly == InitHourly /\ [][NextHourly]_vars

\* The request answered by e was refused by the hourly counter.
HourlyRejected(e) == e.status = 429 /\ ~e.checked

\* The request answered by e restarted the hourly counter of its key.
Restarted(e) == e.hourly_post.reset_time # e.hourly_pre.reset_time

\* C23: app_production without the security packages, requests handled one
\* after the other.  The hourly counter of a key never exceeds 30.  A request
\* that finds the count at 30 when current_time is not past reset_time is
\* answered 429 RATE_LIMIT_EXCEEDED, leaves the counter, rate_limit_store and
\* conversation_history as they were and reaches neither is_rate_limited nor
\* call_gemini_api.  The counter is restarted exactly by the requests whose
\* current_time is strictly greater than reset_time, and such a request is
\* then the first of the new hour.
C23_HourlyCounter ==
    /\ \A c \in DOMAIN request_counts :
           /\ request_counts[c].count >= 0
           /\ request_counts[c].count <= HOURLY_LIMIT
    /\ \A c \in Clients : \A i \in DOMAIN trace[c] :
           LET e == trace[c][i]
           IN  /\ (/\ e.hourly_pre.count = HOURLY_LIMIT
                   /\ e.current_time <= e.hourly_pre.reset_time)
                      => /\ e.status = 429
                         /\ e.error = "RATE_LIMIT_EXCEEDED"
                         /\ ~e.counted
                         /\ e.hourly_post = e.hourly_pre
                         /\ e.post = e.stored
                         /\ e.hist_post = e.hist_pre
                         /\ ~e.checked /\ ~e.called /\ e.t = NoTime
               /\ HourlyRejected(e)
                      => /\ e.hourly_pre.count = HOURLY_LIMIT
                         /\ e.current_time <= e.hourly_pre.reset_time
               /\ Restarted(e) <=> e.current_time > e.hourly_pre.reset_time
               /\ Restarted(e)
                      => e.hourly_post =
                             [count |-> 1,
                              reset_time |-> e.current_time + HourTicks]

\* Thirty requests have been counted, one more at the very instant
\* reset_time has been refused by the counter, and a later one has restarted
\* the counter.
C23_Witness ==
    \E i, j \in DOMAIN trace["A"] :
        /\ i < j
        /\ HourlyRejected(trace["A"][i])
        /\ trace["A"][i].hourly_pre.count = HOURLY_LIMIT
        /\ trace["A"][i].current_time = trace["A"][i].hourly_pre.reset_time
        /\ Restarted(trace["A"][j])
        /\ trace["A"][j].hourly_pre.count = HOURLY_LIMIT
        /\ Counter("A").count = 1

\* The timestamps post are a suffix of the timestamps pre.
IsSuffix(post, pre) ==
    /\ Len(post) <= Len(pre)
    /\ post = SubSeq(pre, Len(pre) - Len(post) + 1, Len(pre))

\* C24: app_production without the security packages, requests handled one
\* after the other.  Every chat request that passes the hourly check is
\* counted by the hourly counter, before the configuration and the sliding
\* window are looked at: the count of a key is the number of requests that
\* passed the check since its last restart, whatever they were answered.  A
\* request answered 500 API_NOT_CONFIGURED or rejected by is_rate_limited
\* (429) has taken one of the hourly slots and no slot of the sliding window.
C24_HourlyCountedFirst ==
    /\ \A c \in DOMAIN request_counts :
           request_counts[c].count =
               Cardinality({i \in DOMAIN trace[c] :
                               /\ trace[c][i].counted
                               /\ trace[c][i].hourly_post.reset_time =
                                      request_counts[c].reset_time})
                   + Cardinality({q \in InFlight :
                                     q.client_id = c /\ q.counted})
    /\ \A c \in Clients : \A i \in DOMAIN trace[c] :
           LET e == trace[c][i]
           IN  /\ e.counted <=> ~HourlyRejected(e)
               /\ e.counted
                      => e.hourly_post.count =
                             1 + (IF Restarted(e) THEN 0
                                                  ELSE e.hourly_pre.count)
               /\ e.error = "API_NOT_CONFIGURED"
                      => e.counted /\ ~e.checked /\ e.post = e.stored
               /\ Rejected(e)
                      => /\ e.counted
                         /\ e.status = 429
                         /\ IsSuffix(e.post, e.stored)

\* The thirtieth hourly slot has been taken by a request that the sliding
\* window rejected, as were all but N of the slots before it, and the next
\* request has been refused by the hourly counter.
C24_Witness ==
    \E i \in DOMAIN trace["A"] :
        /\ Rejected(trace["A"][i])
        /\ trace["A"][i].counted
        /\ trace["A"][i].hourly_post.count = HOURLY_LIMIT
        /\ trace["A"][i].post = trace["A"][i].stored
        /\ Len(trace["A"][i].post) = RATE_LIMIT_REQUESTS
        /\ i < Len(trace["A"])
        /\ HourlyRejected(trace["A"][i + 1])

\* Without the API key, thirty requests answered 500 API_NOT_CONFIGURED have
\* used up the hour and the next one has been refused by the hourly counter.
C24_WitnessNotConfigured ==
    /\ ~api_configured
    /\ rate_limit_store = <<>>
    /\ \E i \in DOMAIN trace["A"] :
           /\ trace["A"][i].error = "API_NOT_CONFIGURED"
           /\ trace["A"][i].hourly_post.count = HOURLY_LIMIT
           /\ i < Len(trace["A"])
           /\ HourlyRejected(trace["A"][i + 1])

\* ------------------------------------------------- the shared conversation

\* Requests (chat and reset) served in one behaviour of SpecHistory, and how
\* many of them may be a reset or a chat whose downstream call fails.
MaxRequestsHistory == 12

MaxFaults == 1

\* The instants of SpecHistory: the starts of four windows that do not
\* overlap, so that one client can be admitted eleven times and more.
ClockPointsHistory ==
    {Sec(k * (RATE_LIMIT_WINDOW + 1)) : k \in 0 .. RATE_LIMIT_REQUESTS}

\* A POST /reset of client c arrives and a worker takes it.
StartReset(c, cap) ==
    /\ budget > 0
    /\ BagCardinality(req) < cap
    /\ req' = req (+) SetToBag({[NewRequest(c, "") EXCEPT !.pc = "reset"]})
    /\ budget' = budget - 1
    /\ UNCHANGED <<now, api_configured, rate_limit_store,
                   conversation_history, trace, request_counts>>

\* conversation_history = []; return jsonify({... "status": "success"})
ResetConversation(q) ==
    /\ q.pc = "reset"
    /\ conversation_history' = <<>>
    /\ Respond(q, 200, "", NoRateLimit, conversation_history')
    /\ UNCHANGED <<now, api_configured, rate_limit_store, budget,
                   request_counts>>

\* The resets that have arrived and the downstream calls that have failed.
ResetsSoFar ==
    Cardinality({i \in DOMAIN trace["A"] : trace["A"][i].at = "reset"})
        + Cardinality({q \in InFlight : q.pc = "reset"})

FailuresSoFar ==
    Cardinality({i \in DOMAIN trace["A"] :
                    trace["A"][i].error = "GEMINI_API_ERROR"})
        + Cardinality({q \in InFlight : q.called /\ q.reply = ""})

\* Serialized chat and reset requests of one client over four windows; the
\* downstream call answers or fails.
InitHistory == InitWith(MaxRequestsHistory, {TRUE})

NextHistory ==
    \/ Start("A", "ok", 1)
    \/ ResetsSoFar + FailuresSoFar < MaxFaults /\ StartReset("A", 1)
    \/ \E q \in InFlight : ResetConversation(q)
    \/ \E q \in InFlight : ChatEntry(q)
    \/ \E q \in InFlight : IrlNow(q)
    \/ \E q \in InFlight : IrlTest(q)
    \/ \E q \in InFlight : IrlPop(q)
    \/ \E q \in InFlight : IrlCheck(q)
    \/ \E q \in InFlight : IrlLimited(q)
    \/ \E q \in InFlight : IrlAppend(q)
    \/ \E q \in InFlight : IrlAdmitted(q)
    \/ \E q \in InFlight : GrtLookup(q)
    \/ \E q \in InFlight : GrtOldest(q)
    \/ \E q \in InFlight : GrtNow(q)
    \/ \E q \in InFlight : ChatReject(q)
    \/ \E q \in InFlight : ChatBody(q)
    \/ \E q \in InFlight : HistAppend(q)
    \/ \E q \in InFlight : HistCut(q)
    \/ \E q \in InFlight : HistSlice(q)
    \/ \E q \in InFlight : HistStore(q)
    \/ \E q \in InFlight : CallApi(q, "reply")
    \/ \E q \in InFlight :
           ResetsSoFar + FailuresSoFar < MaxFaults /\ CallApi(q, "")
    \/ \E q \in InFlight : ChatReply(q)
    \/ Advance(ClockPointsHistory)

SpecHistory == InitHistory /\ [][NextHistory]_vars

\* The message that a chat request of client c appends for its user.
UserMessage(c) == [role |-> "user", content |-> c]

\* C25: after any sequence of chat and reset requests handled one after the
\* other, conversation_history holds at most 21 entries.  It is cut to its
\* last 20 right after the user message is appended (so the downstream call
\* is given at most 20, the last being that message), at most one assistant
\* reply is appended after that, and a reset leaves it empty.  (Inside a
\* handler, between the append of the user message and the cut, it holds one
\* entry more.)
C25_HistoryBounded ==
    /\ req = EmptyBag => Len(conversation_history) <= HISTORY_LIMIT + 1
    /\ Len(conversation_history) <= HISTORY_LIMIT + 2
    /\ \A q \in InFlight :
           q.pc \in {"call_api", "chat_reply"}
               => Len(conversation_history) <= HISTORY_LIMIT
    /\ \A c \in Clients : \A i \in DOMAIN trace[c] :
           LET e == trace[c][i]
           IN  /\ e.at = "reset" => e.hist_post = <<>>
               /\ e.called =>
                      /\ e.messages =
                             LastEntries(Append(e.hist_pre, UserMessage(c)),
                                         HISTORY_LIMIT)
                      /\ Len(e.messages) <= HISTORY_LIMIT
                      /\ e.hist_post =
                             IF e.status = 200
                                THEN Append(e.messages,
                                            [role |-> "assistant",
                                             content |-> "reply"])
                                ELSE e.messages
               /\ (e.at # "reset" /\ ~e.called) => e.hist_post = e.hist_pre

\* A request found 20 entries, was given the last 20 of 21 and left 21 with
\* its reply; a reset then found the 21 entries and left none.
C25_Witness ==
    /\ conversation_history = <<>>
    /\ \E i, j \in DOMAIN trace["A"] :
           /\ i < j
           /\ trace["A"][i].status = 200
           /\ trace["A"][i].called
           /\ Len(trace["A"][i].hist_pre) = HISTORY_LIMIT
           /\ Len(trace["A"][i].messages) = HISTORY_LIMIT
           /\ Len(trace["A"][i].hist_post) = HISTORY_LIMIT + 1
           /\ trace["A"][j].at = "reset"
           /\ Len(trace["A"][j].hist_pre) = HISTORY_LIMIT + 1

\* Requests served in one behaviour of SpecShared.
MaxRequestsShared == 12

\* Client B has sent nothing yet / has sent no reset yet.
NothingFromB ==
    /\ trace["B"] = <<>>
    /\ \A q \in InFlight : q.client_id # "B"

NoResetFromB ==
    /\ \A i \in DOMAIN trace["B"] : trace["B"][i].at # "reset"
    /\ \A q \in InFlight : q.pc # "reset"

\* Serialized requests of two clients over four windows: client B opens the
\* conversation with at most one message and may reset it once, client A
\* sends the other messages.
InitShared == InitWith(MaxRequestsShared, {TRUE})

NextShared ==
    \/ Start("A", "ok", 1)
    \/ budget = MaxRequestsShared /\ NothingFromB /\ Start("B", "ok", 1)
    \/ NoResetFromB /\ StartReset("B", 1)
    \/ \E q \in InFlight : ResetConversation(q)
    \/ \E q \in InFlight : ChatEntry(q)
    \/ \E q \in InFlight : IrlNow(q)
    \/ \E q \in InFlight : IrlTest(q)
    \/ \E q \in InFlight : IrlPop(q)
    \/ \E q \in InFlight : IrlCheck(q)
    \/ \E q \in InFlight : IrlLimited(q)
    \/ \E q \in InFlight : IrlAppend(q)
    \/ \E q \in InFlight : IrlAdmitted(q)
    \/ \E q \in InFlight : GrtLookup(q)
    \/ \E q \in InFlight : GrtOldest(q)
    \/ \E q \in InFlight : GrtNow(q)
    \/ \E q \in InFlight : ChatReject(q)
    \/ \E q \in InFlight : ChatBody(q)
    \/ \E q \in InFlight : HistAppend(q)
    \/ \E q \in InFlight : HistCut(q)
    \/ \E q \in InFlight : HistSlice(q)
    \/ \E q \in InFlight : HistStore(q)
    \/ \E q \in InFlight : CallApi(q, "reply")
    \/ \E q \in InFlight : ChatReply(q)
    \/ Advance(ClockPointsHistory)

SpecShared == InitShared /\ [][NextShared]_vars

\* How many entries of the list h are the message m.
Occurrences(h, m) == Cardinality({k \in DOMAIN h : h[k] = m})

\* No reset has been answered and no request has found the history full.
NeverShortened ==
    \A c \in Clients : \A i \in DOMAIN trace[c] :
        /\ trace[c][i].at # "reset"
        /\ Len(trace[c][i].hist_pre) < HISTORY_LIMIT

\* C26: conversation_history is one list for the whole process, not one per
\* client or session.  With requests handled one after the other, the list
\* given to call_gemini_api for a request is the last 20 entries of
\* everything the history held when the request came, whoever sent it,
\* followed by the request's own message; as long as nothing was cut or
\* reset, the history holds one user message for every request of every
\* client that got that far; and a reset empties the history whatever it
\* holds and whoever asks.
C26_HistoryShared ==
    /\ \A c \in Clients : \A i \in DOMAIN trace[c] :
           LET e == trace[c][i]
           IN  /\ e.called =>
                      e.messages =
                          LastEntries(Append(e.hist_pre, UserMessage(c)),
                                      HISTORY_LIMIT)
               /\ e.at = "reset" => e.hist_post = <<>>
    /\ (req = EmptyBag /\ NeverShortened) =>
           \A c \in Clients :
               Occurrences(conversation_history, UserMessage(c)) =
                   Cardinality({i \in DOMAIN trace[c] : trace[c][i].called})
    /\ \A q \in InFlight :
           q.pc \in {"chat", "irl_now", "chat_body", "hist_append"}
               => q.hist = conversation_history

\* Client A's call was given client B's message; a later call of client A
\* found B's message as the oldest of 20 entries and was given the list
\* without it; and a reset of client B then emptied a history that held
\* only messages of client A and their replies.
C26_Witness ==
    /\ conversation_history = <<>>
    /\ \E i, j \in DOMAIN trace["A"], k \in DOMAIN trace["B"] :
           /\ trace["A"][i].called
           /\ Occurrences(trace["A"][i].messages, UserMessage("B")) = 1
           /\ trace["A"][j].called
           /\ Len(trace["A"][j].hist_pre) = HISTORY_LIMIT
           /\ trace["A"][j].hist_pre[1] = UserMessage("B")
           /\ Occurrences(trace["A"][j].messages, UserMessage("B")) = 0
           /\ trace["B"][k].at = "reset"
           /\ Occurrences(trace["B"][k].hist_pre, UserMessage("A")) > 0
           /\ Occurrences(trace["B"][k].hist_pre, UserMessage("B")) = 0

\* Requests served in one behaviour of SpecCut.
MaxRequestsCut == 12

\* In SpecCut a request of client B, which can only be the last one, may
\* come while the request before it is still being handled.
InFlightCut == IF budget = 1 THEN InFlightOverlap ELSE 1

\* Requests of client A, handled one after the other, fill the history; the
\* last request may be a chat or a reset of client B that overlaps the
\* request before it.
InitCut == InitWith(MaxRequestsCut, {TRUE})

NextCut ==
    \/ Start("A", "ok", 1)
    \/ budget = 1 /\ Start("B", "ok", InFlightCut)
    \/ budget = 1 /\ StartReset("B", InFlightCut)
    \/ \E q \in InFlight : ResetConversation(q)
    \/ \E q \in InFlight : ChatEntry(q)
    \/ \E q \in InFlight : IrlNow(q)
    \/ \E q \in InFlight : IrlTest(q)
    \/ \E q \in InFlight : IrlPop(q)
    \/ \E q \in InFlight : IrlCheck(q)
    \/ \E q \in InFlight : IrlLimited(q)
    \/ \E q \in InFlight : IrlAppend(q)
    \/ \E q \in InFlight : IrlAdmitted(q)
    \/ \E q \in InFlight : GrtLookup(q)
    \/ \E q \in InFlight : GrtOldest(q)
    \/ \E q \in InFlight : GrtNow(q)
    \/ \E q \in InFlight : ChatReject(q)
    \/ \E q \in InFlight : ChatBody(q)
    \/ \E q \in InFlight : HistAppend(q)
    \/ \E q \in InFlight : HistCut(q)
    \/ \E q \in InFlight : HistSlice(q)
    \/ \E q \in InFlight : HistStore(q)
    \/ \E q \in InFlight : CallApi(q, "reply")
    \/ \E q \in InFlight : ChatReply(q)
    \/ Advance(ClockPointsHistory)

SpecCut == InitCut /\ [][NextCut]_vars

\* C27: for every chat request that reaches the downstream call, also when
\* chat and reset requests overlap, the list given to call_gemini_api ends
\* with the request's own user message.
C27_OwnMessageLast ==
    /\ \A q \in InFlight :
           q.called =>
               /\ q.messages # <<>>
               /\ q.messages[Len(q.messages)] = UserMessage(q.client_id)
    /\ \A c \in Clients : \A i \in DOMAIN trace[c] :
           trace[c][i].called =>
               /\ trace[c][i].messages # <<>>
               /\ trace[c][i].messages[Len(trace[c][i].messages)] =
                      UserMessage(c)

\* C27, its second half: when the history is cut to its last 20 entries, no
\* message that a concurrent request has appended is lost: a step that
\* shortens the history without emptying it leaves the last 20 entries of
\* what the history holds at that moment.
C27_NothingLostAtCut ==
    [][(/\ conversation_history' # <<>>
        /\ Len(conversation_history') < Len(conversation_history))
          => conversation_history' =
                 LastEntries(conversation_history, HISTORY_LIMIT)]_vars

\* ------------------------------------------- backend/chatbot.py: SaathiChatbot
\*
\* The one chatbot instance of the backend.  Its fields conversation_history
\* and api_configured are held in the variables of those names; req holds
\* the get_response call in progress, trace the results returned so far.

\* Calls of get_response and reset_conversation in one behaviour of
\* SpecChatbot.
MaxCalls == 3

UserInputs == {"u1", "u2"}

\* What requests.post and the reading of its response come to: a reply, a
\* 200 without choices, the status codes told apart, any other status, the
\* two exceptions told apart, any other exception.
Outcomes ==
    {"ok", "no_choices", "401", "429", "other_status", "timeout",
     "connection_error", "exception"}

\* {"role": "system", "content": Config.LEGAL_ASSISTANT_PROMPT}
SystemMessage == [role |-> "system", content |-> "LEGAL_ASSISTANT_PROMPT"]

\* A reset that leaves no entry at all.
ResetHistoryEmpty == <<>>

\* self.conversation_history = [{"role": "system", ...}]
ResetHistory == <<SystemMessage>>

\* The "error" of the result that get_response returns for an outcome.
ErrorOf(outcome) ==
    CASE outcome = "ok" -> ""
      [] outcome = "no_choices" -> "UNEXPECTED_RESPONSE_FORMAT"
      [] outcome = "401" -> "AUTHENTICATION_FAILED"
      [] outcome = "429" -> "RATE_LIMIT_EXCEEDED"
      [] outcome = "other_status" -> "API_ERROR"
      [] outcome = "timeout" -> "TIMEOUT"
      [] outcome = "connection_error" -> "CONNECTION_ERROR"
      [] outcome = "exception" -> "UNEXPECTED_ERROR"

\* SaathiChatbot(): the history holds the system prompt, api_configured is
\* what Config.is_api_configured() says.
InitChatbot ==
    /\ now = 0
    /\ api_configured \in BOOLEAN
    /\ rate_limit_store = <<>>
    /\ conversation_history = <<SystemMessage>>
    /\ req = EmptyBag
    /\ budget = MaxCalls
    /\ trace = <<>>
    /\ request_counts = <<>>

\* get_response returns: its result is logged with the history as the call
\* found and left it.
GrReturn(q, error, h) ==
    /\ trace' = Append(trace,
                       [op |-> "get_response", user_input |-> q.user_input,
                        reset_conversation |-> q.reset_conversation,
                        outcome |-> q.outcome, error |-> error,
                        hist_pre |-> q.hist, hist_post |-> h])
    /\ req' = req (-) SetToBag({q})

\* chatbot.get_response(user_input, reset_conversation) is called.
GetResponse(user_input, reset_conversation) ==
    /\ budget > 0
    /\ req = EmptyBag
    /\ req' = SetToBag({[pc |-> "gr_entry", user_input |-> user_input,
                         reset_conversation |-> reset_conversation,
                         outcome |-> "", hist |-> conversation_history]})
    /\ budget' = budget - 1
    /\ UNCHANGED <<now, api_configured, rate_limit_store,
                   conversation_history, trace, request_counts>>

\* if not self.api_configured: return {... "error": "API_NOT_CONFIGURED"}
GrEntry(q) ==
    /\ q.pc = "gr_entry"
    /\ IF api_configured
          THEN /\ Goto(q, [q EXCEPT !.pc = "gr_reset"])
               /\ UNCHANGED trace
          ELSE GrReturn(q, "API_NOT_CONFIGURED", conversation_history)
    /\ UNCHANGED <<now, api_configured, rate_limit_store,
                   conversation_history, budget, request_counts>>

\* if reset_conversation: self.reset_conversation()
GrReset(q) ==
    /\ q.pc = "gr_reset"
    /\ conversation_history' =
           IF q.reset_conversation THEN ResetHistory
                                   ELSE conversation_history
    /\ Goto(q, [q EXCEPT !.pc = "gr_append"])
    /\ UNCHANGED <<now, api_configured, rate_limit_store, budget, trace,
                   request_counts>>

\* self.conversation_history.append({"role": "user", "content": user_input})
GrAppend(q) ==
    /\ q.pc = "gr_append"
    /\ conversation_history' =
           Append(conversation_history,
                  [role |-> "user", content |-> q.user_input])
    /\ Goto(q, [q EXCEPT !.pc = "gr_post"])
    /\ UNCHANGED <<now, api_configured, rate_limit_store, budget, trace,
                   request_counts>>

\* response = requests.post(...), and what is read from it
GrPost(q, outcome) ==
    /\ q.pc = "gr_post"
    /\ Goto(q, [q EXCEPT !.pc = "gr_answer", !.outcome = outcome])
    /\ UNCHANGED <<now, api_configured, rate_limit_store,
                   conversation_history, budget, trace, request_counts>>

\* on a reply: append the assistant's message and return it; otherwise
\* return the error of the outcome
GrAnswer(q) ==
    /\ q.pc = "gr_answer"
    /\ conversation_history' =
           IF q.outcome = "ok"
              THEN Append(conversation_history,
                          [role |-> "assistant", content |-> "reply"])
              ELSE conversation_history
    /\ GrReturn(q, ErrorOf(q.outcome), conversation_history')
    /\ UNCHANGED <<now, api_configured, rate_limit_store, budget,
                   request_counts>>

\* chatbot.reset_conversation() is called.
ChatbotReset ==
    /\ budget > 0
    /\ req = EmptyBag
    /\ conversation_history' = ResetHistory
    /\ trace' = Append(trace,
                       [op |-> "reset_conversation", user_input |-> "",
                        reset_conversation |-> TRUE, outcome |-> "",
                        error |-> "", hist_pre |-> conversation_history,
                        hist_post |-> conversation_history'])
    /\ budget' = budget - 1
    /\ UNCHANGED <<now, api_configured, rate_limit_store, req,
                   request_counts>>

NextChatbot ==
    \/ \E u \in UserInputs, r \in BOOLEAN : GetResponse(u, r)
    \/ \E q \in InFlight : GrEntry(q)
    \/ \E q \in InFlight : GrReset(q)
    \/ \E q \in InFlight : GrAppend(q)
    \/ \E q \in InFlight, outcome \in Outcomes : GrPost(q, outcome)
    \/ \E q \in InFlight : GrAnswer(q)
    \/ ChatbotReset

SpecChatbot == InitChatbot /\ [][NextChatbot]_vars

\* The history that a get_response call answered by e builds on.
BaseHistory(e) == IF e.reset_conversation THEN <<SystemMessage>> ELSE e.hist_pre

\* C28: SaathiChatbot, over any sequence of get_response and
\* reset_conversation calls.  The first entry of conversation_history is
\* always the system prompt, and reset_conversation leaves exactly that one
\* entry.  When the API is not configured, get_response returns
\* API_NOT_CONFIGURED and leaves the history as it was, also when
\* reset_conversation=True is passed.  When the API call fails, the user
\* message appended before the call stays in the history and no assistant
\* reply follows it; when it succeeds, the reply follows it.
C28_ChatbotHistory ==
    /\ conversation_history # <<>>
    /\ conversation_history[1] = SystemMessage
    /\ \A i \in DOMAIN trace :
           LET e == trace[i]
               user == [role |-> "user", content |-> e.user_input]
           IN  /\ e.op = "reset_conversation"
                      => e.hist_post = <<SystemMessage>>
               /\ (e.op = "get_response" /\ ~api_configured)
                      => /\ e.error = "API_NOT_CONFIGURED"
                         /\ e.hist_post = e.hist_pre
               /\ (e.op = "get_response" /\ api_configured)
                      => /\ e.error # "API_NOT_CONFIGURED"
                         /\ e.outcome = "ok" <=> e.error = ""
                         /\ e.hist_post =
                                IF e.outcome = "ok"
                                   THEN BaseHistory(e) \o
                                        <<user, [role |-> "assistant",
                                                 content |-> "reply"]>>
                                   ELSE Append(BaseHistory(e), user)

\* An answered call, then a call whose API request failed and left its user
\* message as the last entry, then a reset_conversation that found those
\* four entries.
C28_Witness ==
    /\ Len(trace) = MaxCalls
    /\ trace[1].op = "get_response" /\ trace[1].error = ""
    /\ trace[2].op = "get_response" /\ trace[2].error = "TIMEOUT"
    /\ Len(trace[2].hist_post) = 4
    /\ trace[2].hist_post[4].role = "user"
    /\ trace[3].op = "reset_conversation"
    /\ trace[3].hist_pre = trace[2].hist_post
    /\ conversation_history = <<SystemMessage>>

\* Without the API key: a get_response call with reset_conversation=True
\* has been answered API_NOT_CONFIGURED.
C28_WitnessNotConfigured ==
    /\ ~api_configured
    /\ \E i \in DOMAIN trace :
           /\ trace[i].op = "get_response"
           /\ trace[i].reset_conversation
           /\ trace[i].error = "API_NOT_CONFIGURED"

====
